--------------------------- MODULE DeliveryProofs ----------------------------
(***************************************************************************)
(* What is logged is delivered once and in order, whatever the threads do: *)
(* by mail (SmtpDestination), where there is one sender thread at most and *)
(* the destination is an outbox, and by way of a log file (LogFile,        *)
(* LogReader), where each receiver reads the tail of its file.             *)
(***************************************************************************)
EXTENDS SmtpDestination, LogReader, DataProofs, FiniteSetTheorems

-----------------------------------------------------------------------------
(* By mail: the sender threads.                                            *)

\* One thread at most is inside routePayload(), which holds the mutex.
OneCaller ==
  \A p, q \in Callers : caller[p] # "out" /\ caller[q] # "out" => p = q

\* The flag is the truth about the sender threads.
ActiveIsAlive == active <=> \E s \in Senders : Alive(s)

\* The thread that is about to start a sender has seen that there is none.
SpawnerIsAlone == (\E p \in Callers : caller[p] = "spawn") => ~active

\* A thread inside routePayload() has appended its message.
CallerHasAppended == ~MutexFree => contents # <<>>

\* After the destructor has begun nothing logs.
QuietAfterDestroy == dtor # "alive" => MutexFree

\* The inductive invariant.
SenderIInv ==
  /\ SmtpTypeOK
  /\ OneCaller
  /\ OneSender
  /\ ActiveIsAlive
  /\ SpawnerIsAlone
  /\ CallerHasAppended
  /\ NoEmptyMail
  /\ QuietAfterDestroy
  /\ GoneIsQuiet

-----------------------------------------------------------------------------
(* By mail: the invariant.                                                 *)

LEMMA InitIInv == SmtpInit => SenderIInv
<1>. SUFFICES ASSUME SmtpInit PROVE SenderIInv
  OBVIOUS
<1>1. SmtpTypeOK
  <2>1. <<>> \in Seq(MailMsgs)
    OBVIOUS
  <2>2. sender \in [Senders -> {NoThread} \cup
                     [at : {"sleep"}, slept : 0 .. Interval] \cup
                     [at : {"mail"}, payload : Seq(MailMsgs)] \cup [at : {"done"}]]
    BY Zenon DEF SmtpInit
  <2>. QED BY <2>1, <2>2 DEF SmtpInit, SmtpTypeOK
<1>2. \A s \in Senders : sender[s] = NoThread
  BY DEF SmtpInit
<1>3. OneCaller /\ SpawnerIsAlone /\ CallerHasAppended /\ QuietAfterDestroy
  BY DEF SmtpInit, OneCaller, SpawnerIsAlone, CallerHasAppended, QuietAfterDestroy, MutexFree
<1>4. OneSender /\ ActiveIsAlive /\ GoneIsQuiet
  BY <1>2 DEF SmtpInit, OneSender, ActiveIsAlive, GoneIsQuiet, Alive
<1>5. NoEmptyMail
  BY <1>2 DEF NoEmptyMail, NoThread
<1>. QED BY <1>1, <1>3, <1>4, <1>5 DEF SenderIInv

LEMMA RouteIInv ==
  ASSUME SenderIInv, NEW p \in Callers, NEW m \in MailMsgs, RoutePayload(p, m)
  PROVE  SenderIInv'
<1>. USE DEF SenderIInv
<1>1. CASE /\ contents' = Append(contents, m)
           /\ caller' = [caller EXCEPT ![p] = "check"]
  <2>1. SmtpTypeOK'
    BY <1>1 DEF RoutePayload, SmtpTypeOK
  <2>2. contents' # <<>>
    BY <1>1 DEF SmtpTypeOK
  <2>3. OneCaller' /\ SpawnerIsAlone' /\ CallerHasAppended' /\ QuietAfterDestroy'
    BY <1>1, <2>2 DEF RoutePayload, SmtpTypeOK, OneCaller, SpawnerIsAlone, CallerHasAppended,
                      QuietAfterDestroy, MutexFree
  <2>4. OneSender' /\ ActiveIsAlive' /\ NoEmptyMail' /\ GoneIsQuiet'
    BY <2>2 DEF RoutePayload, OneSender, ActiveIsAlive, NoEmptyMail, GoneIsQuiet, Alive
  <2>. QED BY <2>1, <2>3, <2>4
<1>2. CASE UNCHANGED <<contents, caller>>
  BY <1>2 DEF RoutePayload, SmtpTypeOK, OneCaller, OneSender, ActiveIsAlive, SpawnerIsAlone,
              CallerHasAppended, NoEmptyMail, QuietAfterDestroy, GoneIsQuiet, MutexFree,
              Alive
<1>. QED BY <1>1, <1>2 DEF RoutePayload

LEMMA CheckIInv ==
  ASSUME SenderIInv, NEW p \in Callers, Check(p)
  PROVE  SenderIInv'
<1>. USE DEF SenderIInv
<1>1. SmtpTypeOK'
  BY DEF Check, SmtpTypeOK
<1>2. OneCaller' /\ SpawnerIsAlone' /\ CallerHasAppended' /\ QuietAfterDestroy'
  BY DEF Check, SmtpTypeOK, OneCaller, SpawnerIsAlone, CallerHasAppended,
         QuietAfterDestroy, MutexFree
<1>3. OneSender' /\ ActiveIsAlive' /\ NoEmptyMail' /\ GoneIsQuiet'
  BY DEF Check, OneSender, ActiveIsAlive, NoEmptyMail, GoneIsQuiet, Alive
<1>. QED BY <1>1, <1>2, <1>3

LEMMA SpawnIInv ==
  ASSUME SenderIInv, NEW p \in Callers, Spawn(p)
  PROVE  SenderIInv'
<1>. USE DEF SenderIInv
<1>1. PICK s \in Senders :
        /\ sender[s] = NoThread
        /\ sender' = [sender EXCEPT ![s] = [at |-> "sleep", slept |-> 0]]
  BY DEF Spawn
<1>2. \A t \in Senders : ~Alive(t)
  BY DEF Spawn, SpawnerIsAlone, ActiveIsAlive
<1>3. [at |-> "sleep", slept |-> 0] # NoThread
  <2>1. DOMAIN [at |-> "sleep", slept |-> 0] # DOMAIN NoThread
    BY DEF NoThread
  <2>. QED BY <2>1
<1>4. sender'[s] = [at |-> "sleep", slept |-> 0]
        /\ \A t \in Senders : t # s => sender'[t] = NoThread
  BY <1>1, <1>2 DEF Alive, SmtpTypeOK
<1>5. SmtpTypeOK'
  BY <1>1, SmtpAssumption DEF Spawn, SmtpTypeOK
<1>6. OneCaller' /\ SpawnerIsAlone' /\ CallerHasAppended' /\ QuietAfterDestroy'
  BY DEF Spawn, SmtpTypeOK, OneCaller, SpawnerIsAlone, CallerHasAppended,
         QuietAfterDestroy, MutexFree
<1>7. OneSender'
  BY <1>4 DEF OneSender, Alive
<1>8. ActiveIsAlive'
  BY <1>3, <1>4 DEF Spawn, ActiveIsAlive, Alive
<1>9. NoEmptyMail'
  <2>1. contents' # <<>>
    BY DEF Spawn, CallerHasAppended, MutexFree
  <2>. QED BY <1>4, <2>1 DEF NoEmptyMail, NoThread
<1>10. GoneIsQuiet'
  BY DEF Spawn, GoneIsQuiet, QuietAfterDestroy, MutexFree
<1>. QED BY <1>5, <1>6, <1>7, <1>8, <1>9, <1>10

LEMMA NapIInv ==
  ASSUME SenderIInv, NEW s \in Senders, Nap(s)
  PROVE  SenderIInv'
<1>. USE DEF SenderIInv
<1>1. /\ sender[s] \in [at : {"sleep"}, slept : 0 .. Interval]
      /\ sender' = [sender EXCEPT ![s].slept = @ + 1]
      /\ sender[s].slept < Interval
  BY DEF Nap, SmtpTypeOK, NoThread
<1>2. /\ sender'[s] = [at |-> "sleep", slept |-> sender[s].slept + 1]
      /\ \A t \in Senders : t # s => sender'[t] = sender[t]
  BY <1>1 DEF SmtpTypeOK
<1>3. sender[s] # NoThread /\ sender'[s] # NoThread
  <2>1. DOMAIN sender[s] # DOMAIN NoThread /\ DOMAIN sender'[s] # DOMAIN NoThread
    BY <1>1, <1>2 DEF NoThread
  <2>. QED BY <2>1
<1>4. SmtpTypeOK'
  <2>1. sender'[s] \in [at : {"sleep"}, slept : 0 .. Interval]
    BY <1>1, <1>2, SmtpAssumption
  <2>2. sender' \in [Senders -> {NoThread} \cup
                     [at : {"sleep"}, slept : 0 .. Interval] \cup
                     [at : {"mail"}, payload : Seq(MailMsgs)] \cup [at : {"done"}]]
    BY <1>1, <1>2, <2>1 DEF SmtpTypeOK
  <2>. QED BY <2>2 DEF Nap, SmtpTypeOK
<1>5. OneCaller' /\ SpawnerIsAlone' /\ CallerHasAppended' /\ QuietAfterDestroy'
  BY DEF Nap, OneCaller, SpawnerIsAlone, CallerHasAppended, QuietAfterDestroy, MutexFree
<1>6. \A t \in Senders : Alive(t)' <=> Alive(t)
  BY <1>2, <1>3 DEF Alive
<1>7. OneSender' /\ ActiveIsAlive' /\ GoneIsQuiet'
  BY <1>6 DEF Nap, OneSender, ActiveIsAlive, GoneIsQuiet
<1>8. NoEmptyMail'
  <2>1. contents' = contents /\ contents # <<>>
    BY <1>1 DEF Nap, NoEmptyMail
  <2>. QED BY <1>2, <2>1 DEF NoEmptyMail
<1>. QED BY <1>4, <1>5, <1>7, <1>8

\* What a sender thread that is in send_message_() does leaves the others alone: there
\* are none.
LEMMA OnlySender ==
  ASSUME SenderIInv, NEW s \in Senders, sender[s].at \in {"sleep", "mail", "done"}
  PROVE  Alive(s) /\ active /\ \A t \in Senders : t # s => sender[t] = NoThread
<1>1. Alive(s)
  BY DEF Alive, NoThread
<1>. QED BY <1>1 DEF SenderIInv, OneSender, ActiveIsAlive, Alive

LEMMA TakeIInv ==
  ASSUME SenderIInv, NEW s \in Senders, Take(s)
  PROVE  SenderIInv'
<1>. USE DEF SenderIInv
<1>1. \A t \in Senders : t # s => sender[t] = NoThread
  BY OnlySender DEF Take
<1>2. /\ sender'[s] = [at |-> "mail", payload |-> contents]
      /\ \A t \in Senders : t # s => sender'[t] = NoThread
  BY <1>1 DEF Take, SmtpTypeOK
<1>3. sender'[s] # NoThread
  <2>1. DOMAIN sender'[s] # DOMAIN NoThread
    BY <1>2 DEF NoThread
  <2>. QED BY <2>1
<1>4. SmtpTypeOK'
  BY DEF Take, SmtpTypeOK
<1>5. OneCaller' /\ SpawnerIsAlone' /\ CallerHasAppended' /\ QuietAfterDestroy'
  BY DEF Take, OneCaller, SpawnerIsAlone, CallerHasAppended, QuietAfterDestroy, MutexFree
<1>6. OneSender'
  BY <1>2 DEF OneSender, Alive
<1>7. active /\ active' = active /\ dtor # "gone" /\ dtor' = dtor
  BY OnlySender DEF Take, GoneIsQuiet
<1>8. ActiveIsAlive' /\ GoneIsQuiet'
  BY <1>3, <1>7 DEF ActiveIsAlive, GoneIsQuiet, Alive
<1>9. NoEmptyMail'
  <2>1. contents # <<>>
    BY DEF Take, NoEmptyMail
  <2>. QED BY <1>2, <2>1 DEF NoEmptyMail, NoThread
<1>. QED BY <1>4, <1>5, <1>6, <1>8, <1>9

LEMMA MailIInv ==
  ASSUME SenderIInv, NEW s \in Senders, Mail(s)
  PROVE  SenderIInv'
<1>. USE DEF SenderIInv
<1>1. \A t \in Senders : t # s => sender[t] = NoThread
  BY OnlySender DEF Mail
<1>2. /\ sender'[s] = [at |-> "done"]
      /\ \A t \in Senders : t # s => sender'[t] = NoThread
  BY <1>1 DEF Mail, SmtpTypeOK
<1>3. sender'[s] # NoThread
  BY <1>2 DEF NoThread
<1>4. SmtpTypeOK'
  <2>1. sender[s].payload \in Seq(MailMsgs)
    BY DEF Mail, SmtpTypeOK, NoThread
  <2>2. sent' \in Seq(MailMsgs)
    BY <2>1, ConcatProperties DEF Mail, SmtpTypeOK
  <2>. QED BY <2>2 DEF Mail, SmtpTypeOK
<1>5. OneCaller' /\ SpawnerIsAlone' /\ CallerHasAppended' /\ QuietAfterDestroy'
  BY DEF Mail, OneCaller, SpawnerIsAlone, CallerHasAppended, QuietAfterDestroy, MutexFree
<1>6. OneSender'
  BY <1>2 DEF OneSender, Alive
<1>7. active /\ active' = active /\ dtor # "gone" /\ dtor' = dtor
  BY OnlySender DEF Mail, GoneIsQuiet
<1>8. ActiveIsAlive' /\ GoneIsQuiet'
  BY <1>3, <1>7 DEF ActiveIsAlive, GoneIsQuiet, Alive
<1>9. NoEmptyMail'
  BY <1>2 DEF NoEmptyMail, NoThread
<1>. QED BY <1>4, <1>5, <1>6, <1>8, <1>9

LEMMA FinishIInv ==
  ASSUME SenderIInv, NEW s \in Senders, Finish(s)
  PROVE  SenderIInv'
<1>. USE DEF SenderIInv
<1>1. \A t \in Senders : t # s => sender[t] = NoThread
  BY OnlySender DEF Finish
<1>2. \A t \in Senders : sender'[t] = NoThread
  BY <1>1 DEF Finish, SmtpTypeOK
<1>3. SmtpTypeOK'
  BY DEF Finish, SmtpTypeOK
<1>4. OneCaller' /\ CallerHasAppended' /\ QuietAfterDestroy'
  BY DEF Finish, OneCaller, CallerHasAppended, QuietAfterDestroy, MutexFree
<1>5. OneSender' /\ ActiveIsAlive' /\ GoneIsQuiet' /\ SpawnerIsAlone'
  BY <1>2 DEF Finish, OneSender, ActiveIsAlive, GoneIsQuiet, SpawnerIsAlone, Alive
<1>6. NoEmptyMail'
  BY <1>2 DEF NoEmptyMail, NoThread
<1>. QED BY <1>3, <1>4, <1>5, <1>6

LEMMA DestructorIInv ==
  ASSUME SenderIInv, Destructor \/ Destroyed
  PROVE  SenderIInv'
<1>1. CASE Destructor
  BY <1>1 DEF SenderIInv, Destructor, SmtpTypeOK, OneCaller, OneSender, ActiveIsAlive, SpawnerIsAlone,
              CallerHasAppended, NoEmptyMail, QuietAfterDestroy, GoneIsQuiet, MutexFree, Alive
<1>2. CASE Destroyed
  BY <1>2 DEF SenderIInv, Destroyed, SmtpTypeOK, OneCaller, OneSender, ActiveIsAlive, SpawnerIsAlone,
              CallerHasAppended, NoEmptyMail, QuietAfterDestroy, GoneIsQuiet, MutexFree, Alive
<1>. QED BY <1>1, <1>2

\* The invariant that the others follow from: at any moment the flag says whether there
\* is a sender thread, and whoever is about to start one holds the mutex, has appended a
\* message, and has seen that there is none (SMTP_mfPlugin.cc:104-108, 291-405).
THEOREM SenderInductive == SmtpSpec => []SenderIInv
<1>1. SenderIInv /\ [SmtpNext]_smtpVars => SenderIInv'
  <2>. SUFFICES ASSUME SenderIInv, [SmtpNext]_smtpVars PROVE SenderIInv'
    OBVIOUS
  <2>1. CASE \E p \in Callers, m \in MailMsgs : RoutePayload(p, m)
    BY <2>1, RouteIInv
  <2>2. CASE Returning
    BY <2>2, CheckIInv, SpawnIInv DEF Returning
  <2>3. CASE Sending
    BY <2>3, NapIInv, TakeIInv, MailIInv, FinishIInv DEF Sending
  <2>4. CASE Destructor \/ Destroyed
    BY <2>4, DestructorIInv
  <2>5. CASE UNCHANGED smtpVars
    BY <2>5 DEF smtpVars, SenderIInv, SmtpTypeOK, OneCaller, OneSender, ActiveIsAlive, SpawnerIsAlone,
                CallerHasAppended, NoEmptyMail, QuietAfterDestroy, GoneIsQuiet, MutexFree,
                Alive
  <2>. QED BY <2>1, <2>2, <2>3, <2>4, <2>5 DEF SmtpNext
<1>. QED BY InitIInv, <1>1, PTL DEF SmtpSpec

\* There is one sender thread at most and it has something to send
\* (SMTP_mfPlugin.cc:339-405).
THEOREM SenderInvariant == SmtpSpec => []SenderInv
<1>1. SenderIInv => SenderInv
  BY DEF SenderIInv, SenderInv
<1>. QED BY <1>1, SenderInductive, PTL

\* Once the destructor has returned no thread uses the object
\* (SMTP_mfPlugin.cc:104-108).
THEOREM DestructorIsLast == SmtpSpec => []GoneIsQuiet
<1>1. SenderIInv => GoneIsQuiet
  BY DEF SenderIInv
<1>. QED BY <1>1, SenderInductive, PTL
-----------------------------------------------------------------------------
(* By mail: the refinement.                                                *)

\* The payload of the threads f that is about to be handed over.
FlightOf(f) ==
  LET M == {s \in Senders : f[s].at = "mail"}
  IN  IF M = {} THEN <<>> ELSE f[CHOOSE s \in M : TRUE].payload

LEMMA NothingInFlight ==
  ASSUME NEW f, \A s \in Senders : f[s].at # "mail"
  PROVE  FlightOf(f) = <<>>
BY DEF FlightOf

LEMMA OneInFlight ==
  ASSUME NEW f, NEW s \in Senders, f[s].at = "mail",
         \A t \in Senders : t # s => f[t] = NoThread
  PROVE  FlightOf(f) = f[s].payload
<1>1. {t \in Senders : f[t].at = "mail"} = {s}
  BY DEF NoThread
<1>2. (CHOOSE t \in {s} : TRUE) = s
  OBVIOUS
<1>. QED BY <1>1, <1>2 DEF FlightOf

LEMMA InFlightIsSeq == SenderIInv => InFlight \in Seq(MailMsgs)
<1>. SUFFICES ASSUME SenderIInv PROVE FlightOf(sender) \in Seq(MailMsgs)
  BY DEF InFlight, FlightOf
<1>1. CASE \A s \in Senders : sender[s].at # "mail"
  <2>1. <<>> \in Seq(MailMsgs)
    OBVIOUS
  <2>. QED BY <1>1, <2>1, NothingInFlight
<1>2. CASE \E s \in Senders : sender[s].at = "mail"
  <2>1. PICK s \in Senders : sender[s].at = "mail"
    BY <1>2
  <2>2. sender[s].payload \in Seq(MailMsgs)
    BY <2>1 DEF SenderIInv, SmtpTypeOK, NoThread
  <2>3. FlightOf(sender) = sender[s].payload
    BY <2>1, OnlySender, OneInFlight
  <2>. QED BY <2>2, <2>3
<1>. QED BY <1>1, <1>2

\* A step that leaves the buffer, the mails and what is in flight alone.
LEMMA Stutter ==
  ASSUME UNCHANGED <<contents, sent>>, FlightOf(sender') = FlightOf(sender)
  PROVE  UNCHANGED Abstract!vars
BY DEF Abstract!vars, InFlight, FlightOf

\* A message that is accepted is appended to what is pending.
LEMMA RouteRefines ==
  ASSUME SenderIInv, NEW p \in Callers, NEW m \in MailMsgs, RoutePayload(p, m)
  PROVE  [Abstract!Next]_(Abstract!vars)
<1>1. InFlight' = InFlight
  BY DEF RoutePayload, InFlight
<1>2. CASE contents' = Append(contents, m)
  <2>1. InFlight \in Seq(MailMsgs) /\ contents \in Seq(MailMsgs)
    BY InFlightIsSeq DEF SenderIInv, SmtpTypeOK
  <2>2. InFlight \o Append(contents, m) = Append(InFlight \o contents, m)
    <3>1. <<m>> \in Seq(MailMsgs)
      OBVIOUS
    <3>2. InFlight \o contents \in Seq(MailMsgs)
      BY <2>1, ConcatProperties
    <3>3. Append(contents, m) = contents \o <<m>>
      BY <2>1, AppendIsConcat
    <3>4. Append(InFlight \o contents, m) = (InFlight \o contents) \o <<m>>
      BY <3>2, AppendIsConcat
    <3>5. (InFlight \o contents) \o <<m>> = InFlight \o (contents \o <<m>>)
      BY <2>1, <3>1, ConcatAssociative
    <3>. QED BY <3>3, <3>4, <3>5
  <2>3. Abstract!Accept(m)
    BY <1>1, <1>2, <2>2 DEF RoutePayload, Abstract!Accept
  <2>. QED BY <2>3 DEF Abstract!Next
<1>3. CASE UNCHANGED contents
  BY <1>1, <1>3 DEF RoutePayload, Abstract!vars
<1>. QED BY <1>2, <1>3 DEF RoutePayload

\* A new sender has nothing in flight yet.
LEMMA CallerRefines ==
  ASSUME SenderIInv, NEW p \in Callers, Check(p) \/ Spawn(p)
  PROVE  UNCHANGED Abstract!vars
<1>1. CASE Check(p)
  BY <1>1, Stutter DEF Check
<1>2. CASE Spawn(p)
  <2>1. \A t \in Senders : sender[t] = NoThread
    BY <1>2 DEF SenderIInv, Spawn, SpawnerIsAlone, ActiveIsAlive, Alive
  <2>2. \A t \in Senders : sender[t].at # "mail" /\ sender'[t].at # "mail"
    BY <1>2, <2>1 DEF Spawn, SenderIInv, SmtpTypeOK, NoThread
  <2>. QED BY <1>2, <2>2, NothingInFlight, Stutter DEF Spawn
<1>. QED BY <1>1, <1>2

\* Taking the buffer moves its messages from the contents to what is in flight.
LEMMA TakeRefines ==
  ASSUME SenderIInv, NEW s \in Senders, Take(s)
  PROVE  UNCHANGED Abstract!vars
<1>1. \A t \in Senders : t # s => sender[t] = NoThread
  BY OnlySender DEF Take
<1>2. /\ sender'[s] = [at |-> "mail", payload |-> contents]
      /\ \A t \in Senders : t # s => sender'[t] = NoThread
  BY <1>1 DEF Take, SenderIInv, SmtpTypeOK
<1>3. FlightOf(sender) = <<>>
  <2>1. \A t \in Senders : sender[t].at # "mail"
    BY <1>1 DEF Take, NoThread
  <2>. QED BY <2>1, NothingInFlight
<1>4. FlightOf(sender') = contents
  BY <1>2, OneInFlight
<1>5. InFlight = <<>> /\ InFlight' = contents
  BY <1>3, <1>4 DEF InFlight, FlightOf
<1>6. contents \o <<>> = <<>> \o contents
  BY ConcatEmptySeq DEF SenderIInv, SmtpTypeOK
<1>. QED BY <1>5, <1>6 DEF Take, Abstract!vars

\* Mailing sends the oldest messages that are pending: those in flight.
LEMMA MailRefines ==
  ASSUME SenderIInv, NEW s \in Senders, Mail(s)
  PROVE  Abstract!Next
<1>. DEFINE load == sender[s].payload
<1>1. \A t \in Senders : t # s => sender[t] = NoThread
  BY OnlySender DEF Mail
<1>2. /\ sender'[s] = [at |-> "done"]
      /\ \A t \in Senders : t # s => sender'[t] = NoThread
  BY <1>1 DEF Mail, SenderIInv, SmtpTypeOK
<1>3. load \in Seq(MailMsgs) /\ load # <<>> /\ contents \in Seq(MailMsgs)
  BY DEF Mail, SenderIInv, SmtpTypeOK, NoThread, NoEmptyMail
<1>4. InFlight = load
  BY <1>1, OneInFlight DEF Mail, InFlight, FlightOf
<1>5. InFlight' = <<>>
  <2>1. \A t \in Senders : sender'[t].at # "mail"
    BY <1>2 DEF NoThread
  <2>2. FlightOf(sender') = <<>>
    BY <2>1, NothingInFlight
  <2>. QED BY <2>2 DEF InFlight, FlightOf
<1>6. InFlight' \o contents' = contents
  BY <1>3, <1>5, ConcatEmptySeq DEF Mail
<1> HIDE DEF load
<1>7. /\ load \o contents \in Seq(MailMsgs)
      /\ Len(load \o contents) = Len(load) + Len(contents)
      /\ Len(load) \in 1 .. Len(load \o contents)
  BY <1>3, ConcatProperties, LenProperties, EmptySeq
<1>8. SubSeq(load \o contents, 1, Len(load)) = load
  <2>1. SubSeq(load \o contents, 1, Len(load)) = SubSeq(load, 1, Len(load))
    BY <1>3, <1>7, SubSeqOfConcat1
  <2>. QED BY <1>3, <2>1, SubSeqFull
<1>9. SubSeq(load \o contents, Len(load) + 1, Len(load \o contents)) = contents
  <2>1. CASE contents = <<>>
    BY <1>7, <2>1, SubSeqEmpty
  <2>2. CASE contents # <<>>
    <3>1. Len(contents) \in Nat /\ Len(contents) > 0 /\ Len(load) \in Nat
      BY <1>3, <2>2
    <3>2. SubSeq(load \o contents, Len(load) + 1, Len(load) + Len(contents))
            = SubSeq(contents, 1, Len(contents))
      <4>1. /\ Len(load) + 1 \in Len(load) + 1 .. Len(load) + Len(contents)
            /\ Len(load) + Len(contents) \in Len(load) + 1 .. Len(load) + Len(contents)
            /\ Len(load) + 1 - Len(load) = 1
            /\ Len(load) + Len(contents) - Len(load) = Len(contents)
        BY <3>1
      <4>2. SubSeq(load \o contents, Len(load) + 1, Len(load) + Len(contents))
              = SubSeq(contents, Len(load) + 1 - Len(load),
                       Len(load) + Len(contents) - Len(load))
        BY <1>3, <4>1, SubSeqOfConcat2
      <4>. QED BY <4>1, <4>2
    <3>. QED BY <1>3, <1>7, <3>2, SubSeqFull
  <2>. QED BY <2>1, <2>2
<1>10. Abstract!Send(Len(load))
  BY <1>4, <1>6, <1>8, <1>9 DEF Abstract!Send, Mail, load
<1>. QED BY <1>4, <1>7, <1>10 DEF Abstract!Next

\* Napping and finishing send nothing.
LEMMA IdleRefines ==
  ASSUME SenderIInv, NEW s \in Senders, Nap(s) \/ Finish(s)
  PROVE  UNCHANGED Abstract!vars
<1>1. \A t \in Senders : t # s => sender[t] = NoThread
  BY OnlySender DEF Nap, Finish
<1>2. \A t \in Senders : sender[t].at # "mail"
  BY <1>1 DEF Nap, Finish, NoThread
<1>3. \A t \in Senders : t # s => sender'[t] = sender[t]
  BY DEF Nap, Finish, SenderIInv, SmtpTypeOK
<1>4. sender'[s].at # "mail"
  <2>1. CASE Nap(s)
    <3>1. sender[s] \in [at : {"sleep"}, slept : 0 .. Interval]
      BY <2>1 DEF Nap, SenderIInv, SmtpTypeOK, NoThread
    <3>. QED BY <2>1, <3>1 DEF Nap, SenderIInv, SmtpTypeOK
  <2>2. CASE Finish(s)
    BY <2>2 DEF Finish, SenderIInv, SmtpTypeOK, NoThread
  <2>. QED BY <2>1, <2>2
<1>5. FlightOf(sender') = <<>> /\ FlightOf(sender) = <<>>
  <2>1. \A t \in Senders : sender'[t].at # "mail"
    BY <1>2, <1>3, <1>4
  <2>. QED BY <1>2, <2>1, NothingInFlight
<1>. QED BY <1>5, Stutter DEF Nap, Finish

\* The destination is an outbox, for any number of logging threads, any messages and any
\* interval: accepted messages leave once and in order (SMTP_mfPlugin.cc:291-405).
THEOREM IsOutbox == SmtpSpec => ImplementsOutbox
<1>1. SmtpInit => Abstract!Init
  <2>. SUFFICES ASSUME SmtpInit PROVE Abstract!Init
    OBVIOUS
  <2>1. \A s \in Senders : sender[s].at # "mail"
    BY DEF SmtpInit, NoThread
  <2>2. InFlight = <<>>
    BY <2>1, NothingInFlight DEF InFlight, FlightOf
  <2>. QED BY <2>2 DEF SmtpInit, Abstract!Init
<1>2. SenderIInv /\ [SmtpNext]_smtpVars => [Abstract!Next]_(Abstract!vars)
  <2>. SUFFICES ASSUME SenderIInv, [SmtpNext]_smtpVars PROVE [Abstract!Next]_(Abstract!vars)
    OBVIOUS
  <2>1. CASE \E p \in Callers, m \in MailMsgs : RoutePayload(p, m)
    BY <2>1, RouteRefines
  <2>2. CASE Returning
    BY <2>2, CallerRefines DEF Returning
  <2>3. CASE Sending
    BY <2>3, TakeRefines, MailRefines, IdleRefines DEF Sending
  <2>4. CASE Destructor \/ Destroyed \/ UNCHANGED smtpVars
    BY <2>4, Stutter DEF Destructor, Destroyed, smtpVars
  <2>. QED BY <2>1, <2>2, <2>3, <2>4 DEF SmtpNext
<1>. QED BY <1>1, <1>2, SenderInductive, PTL DEF SmtpSpec, ImplementsOutbox, Abstract!Spec

-----------------------------------------------------------------------------
(* By file: the layout of a message.                                       *)

TextLines(m) == IF "TEXT" \in Wants THEN m.lines ELSE 0

\* A message is its first line, at most two lines more of its origin and time, its text,
\* and a line that ends it.
LaidOut(m, a, s) ==
  /\ s \in Seq(Lines) /\ Len(s) = a + TextLines(m) + 1
  /\ s[1] = Line(m, "head")
  /\ \A i \in 2 .. a : s[i] \in {Line(m, "epilogue"), Line(m, "stamp")}
  /\ \A i \in a + 1 .. a + TextLines(m) : s[i] = TextLine(m, i - a)
  /\ s[a + TextLines(m) + 1] = Line(m, "trailer")

LEMMA PrefixIs ==
  ASSUME NEW m \in Msgs
  PROVE  /\ Prefix(m) \in Seq(Lines) /\ Len(Prefix(m)) \in 1 .. 3
         /\ Prefix(m)[1] = Line(m, "head")
         /\ \A i \in 2 .. Len(Prefix(m)) : Prefix(m)[i] \in {Line(m, "epilogue"), Line(m, "stamp")}
<1>. DEFINE h == <<Line(m, "head")>>
            a == IF /\ "EPILOGUE_SEPARATE" \in Wants
                    /\ \/ m.origin["module"] # ""
                       \/ "TIMESTAMP" \in Wants /\ "TIME_SEPARATE" \notin Wants
                 THEN <<Line(m, "epilogue")>> ELSE <<>>
            b == IF {"TIMESTAMP", "TIME_SEPARATE"} \subseteq Wants
                 THEN <<Line(m, "stamp")>> ELSE <<>>
            p == h \o a
            q == p \o b
<1>0. Line(m, "head") \in Lines /\ Line(m, "epilogue") \in Lines /\ Line(m, "stamp") \in Lines
  BY DEF Lines, Line, LineKinds
<1>1. h \in Seq(Lines) /\ Len(h) = 1 /\ h[1] = Line(m, "head")
  BY <1>0
<1>2. a \in Seq(Lines) /\ Len(a) \in 0 .. 1 /\ \A i \in 1 .. Len(a) : a[i] = Line(m, "epilogue")
  <2>1. CASE a = <<>>
    <3>. HIDE DEF a
    <3>. QED BY <2>1
  <2>2. CASE a = <<Line(m, "epilogue")>>
    <3>. HIDE DEF a
    <3>. QED BY <1>0, <2>2
  <2>3. a = <<>> \/ a = <<Line(m, "epilogue")>>
    OBVIOUS
  <2>. QED BY <2>1, <2>2, <2>3
<1>3. b \in Seq(Lines) /\ Len(b) \in 0 .. 1 /\ \A i \in 1 .. Len(b) : b[i] = Line(m, "stamp")
  <2>1. CASE b = <<>>
    <3>. HIDE DEF b
    <3>. QED BY <2>1
  <2>2. CASE b = <<Line(m, "stamp")>>
    <3>. HIDE DEF b
    <3>. QED BY <1>0, <2>2
  <2>3. b = <<>> \/ b = <<Line(m, "stamp")>>
    OBVIOUS
  <2>. QED BY <2>1, <2>2, <2>3
<1>4. Prefix(m) = q
  BY DEF Prefix
<1>. HIDE DEF h, a, b
<1>5. /\ p \in Seq(Lines) /\ Len(p) = Len(h) + Len(a)
      /\ \A i \in 1 .. Len(h) : p[i] = h[i]
      /\ \A i \in 1 .. Len(a) : p[Len(h) + i] = a[i]
  BY <1>1, <1>2, Concatenated, SMTT(30)
<1>. HIDE DEF p
<1>6. /\ q \in Seq(Lines) /\ Len(q) = Len(p) + Len(b)
      /\ \A i \in 1 .. Len(p) : q[i] = p[i]
      /\ \A i \in 1 .. Len(b) : q[Len(p) + i] = b[i]
  BY <1>3, <1>5, Concatenated, SMTT(30)
<1>. HIDE DEF q
<1>7. \A i \in 2 .. Len(q) : q[i] \in {Line(m, "epilogue"), Line(m, "stamp")}
  <2>. SUFFICES ASSUME NEW i \in 2 .. Len(q) PROVE q[i] \in {Line(m, "epilogue"), Line(m, "stamp")}
    OBVIOUS
  <2>1. CASE i <= Len(p)
    <3>1. i - 1 \in 1 .. Len(a) /\ Len(h) + (i - 1) = i /\ i \in 1 .. Len(p)
      BY <1>1, <1>2, <1>5, <2>1
    <3>. QED BY <1>2, <1>5, <1>6, <3>1
  <2>2. CASE i > Len(p)
    <3>1. i - Len(p) \in 1 .. Len(b) /\ Len(p) + (i - Len(p)) = i
      BY <1>3, <1>5, <1>6, <2>2
    <3>. QED BY <1>3, <1>6, <3>1
  <2>. QED BY <1>5, <2>1, <2>2
<1>8. Len(q) \in 1 .. 3
  <2>1. /\ Len(h) \in Nat /\ Len(a) \in Nat /\ Len(b) \in Nat
        /\ Len(p) \in Nat /\ Len(q) \in Nat
        /\ Len(h) = 1 /\ Len(a) <= 1 /\ Len(b) <= 1
    BY <1>1, <1>2, <1>3, <1>5, <1>6, SMTT(30)
  <2>2. Len(p) = Len(h) + Len(a) /\ Len(q) = Len(p) + Len(b)
    BY <1>5, <1>6
  <2>. QED BY <2>1, <2>2
<1>9. q[1] = Line(m, "head")
  <2>1. 1 \in 1 .. Len(h) /\ 1 \in 1 .. Len(p)
    BY <1>1, <1>2, <1>5
  <2>. QED BY <1>1, <1>5, <1>6, <2>1
<1>. QED BY <1>4, <1>6, <1>7, <1>8, <1>9

LEMMA LayoutIs ==
  ASSUME NEW m \in Msgs, "NO_LINE_BREAKS" \notin Wants
  PROVE  \E a \in 1 .. 3 : LaidOut(m, a, Layout[m])
<1>. DEFINE p == Prefix(m)
            u == UsrMsg(m)
            z == <<Line(m, "trailer")>>
            q == p \o u
            s == q \o z
            n == TextLines(m)
            a == Len(p)
<1>0. (\A i : TextLine(m, i) \in Lines) /\ Line(m, "trailer") \in Lines
  BY DEF Lines, Line, TextLine, LineKinds
<1>1. /\ p \in Seq(Lines) /\ a \in 1 .. 3 /\ p[1] = Line(m, "head")
      /\ \A i \in 2 .. a : p[i] \in {Line(m, "epilogue"), Line(m, "stamp")}
  BY PrefixIs
<1>2. n \in Nat /\ u \in Seq(Lines) /\ Len(u) = n /\ \A i \in 1 .. n : u[i] = TextLine(m, i)
  <2>1. m.lines \in Nat
    BY LogFileAssumption
  <2>2. CASE "TEXT" \in Wants
    <3>1. n = m.lines /\ u = [i \in 1 .. n |-> TextLine(m, i)]
      <4>1. m.lines - 0 = m.lines /\ \A i \in 1 .. m.lines : i + 0 = i
        BY <2>1
      <4>2. u = [i \in 1 .. m.lines - 0 |-> TextLine(m, i + 0)]
        BY <2>2 DEF UsrMsg
      <4>. QED BY <2>2, <4>1, <4>2 DEF TextLines
    <3>. HIDE DEF u
    <3>. QED BY <1>0, <2>1, <3>1
  <2>3. CASE "TEXT" \notin Wants
    <3>1. n = 0 /\ u = <<>>
      BY <2>3 DEF UsrMsg, TextLines
    <3>. HIDE DEF u
    <3>. QED BY <3>1
  <2>. QED BY <2>2, <2>3
<1>3. z \in Seq(Lines) /\ Len(z) = 1 /\ z[1] = Line(m, "trailer")
  BY <1>0
<1>4. Layout[m] = s
  BY DEF Layout, Suffix
<1>. HIDE DEF p, u, z, n
<1>5. /\ q \in Seq(Lines) /\ Len(q) = Len(p) + Len(u)
      /\ \A i \in 1 .. Len(p) : q[i] = p[i]
      /\ \A i \in 1 .. Len(u) : q[Len(p) + i] = u[i]
  <2>1. p \in Seq(Lines) /\ u \in Seq(Lines)
    BY <1>1, <1>2
  <2>. QED BY <2>1, Concatenated
<1>. HIDE DEF q
<1>6. /\ s \in Seq(Lines) /\ Len(s) = Len(q) + Len(z)
      /\ \A i \in 1 .. Len(q) : s[i] = q[i]
      /\ \A i \in 1 .. Len(z) : s[Len(q) + i] = z[i]
  BY <1>3, <1>5, Concatenated
<1>. HIDE DEF s
<1>7. Len(s) = a + n + 1 /\ s[1] = Line(m, "head") /\ s[a + n + 1] = Line(m, "trailer")
  BY <1>1, <1>2, <1>3, <1>5, <1>6
<1>8. \A i \in 2 .. a : s[i] \in {Line(m, "epilogue"), Line(m, "stamp")}
  <2>. SUFFICES ASSUME NEW i \in 2 .. a PROVE s[i] = p[i]
    BY <1>1
  <2>1. i \in 1 .. Len(p) /\ i \in 1 .. Len(q)
    BY <1>1, <1>2, <1>5
  <2>. QED BY <1>5, <1>6, <2>1
<1>9. \A i \in a + 1 .. a + n : s[i] = TextLine(m, i - a)
  <2>. SUFFICES ASSUME NEW i \in a + 1 .. a + n PROVE s[i] = TextLine(m, i - a)
    OBVIOUS
  <2>1. i - a \in 1 .. n /\ Len(p) + (i - a) = i /\ i \in 1 .. Len(q)
    BY <1>1, <1>2, <1>5
  <2>. QED BY <1>2, <1>5, <1>6, <2>1
<1>10. LaidOut(m, a, s)
  BY <1>6, <1>7, <1>8, <1>9 DEF LaidOut, n
<1>. QED BY <1>1, <1>4, <1>10

-----------------------------------------------------------------------------
(* By file: the lines of several messages.                                  *)

LEMMA LayoutType ==
  ASSUME NEW m \in Msgs, "NO_LINE_BREAKS" \notin Wants
  PROVE  Layout[m] \in Seq(Lines)
BY LayoutIs DEF LaidOut

Followed(lines, m) == lines \o Layout[m]

\* What the recursion of LinesOf says, to n.
LinesSteps(ms, n, f) ==
  f[0] = <<>> /\ \A i \in 1 .. n : f[i] = Followed(f[i - 1], ms[i])

LEMMA LinesOfIs ==
  ASSUME NEW ms \in Seq(Msgs), "NO_LINE_BREAKS" \notin Wants
  PROVE  \E f : LinesSteps(ms, Len(ms), f) /\ LinesOf(ms) = f[Len(ms)]
<1>. DEFINE n == Len(ms)
            Q(f) == f = [i \in 0 .. n |-> IF i = 0 THEN <<>> ELSE Followed(f[i - 1], ms[i])]
            c == CHOOSE f : Q(f)
            F == [i \in 1 .. n |-> [v \in Seq(Lines) |-> Followed(v, ms[i])]]
<1>0. n \in Nat
  OBVIOUS
<1>1. \A i \in 1 .. n : \A v \in Seq(Lines) :
        F[i][v] = Followed(v, ms[i]) /\ F[i][v] \in Seq(Lines)
  <2>1. \A i \in 1 .. n : Layout[ms[i]] \in Seq(Lines)
    BY LayoutType
  <2>. QED BY <2>1, Concatenated DEF Followed
<1>. HIDE DEF F
<1>2. PICK f : Recursion(<<>>, F, n, f)
  BY <1>0, RecursionExists
<1>3. \A i \in 0 .. n : f[i] \in Seq(Lines)
  <2>. DEFINE x == <<>>
              V == [i \in 0 .. n |-> Seq(Lines)]
  <2>0. \A i \in 0 .. n : V[i] = Seq(Lines)
    OBVIOUS
  <2>1. x \in Seq(Lines) /\ Recursion(x, F, n, f)
    BY <1>2
  <2>. HIDE DEF n, x, V
  <2>2. x \in V[0] /\ \A i \in 1 .. n : \A v \in V[i - 1] : F[i][v] \in V[i]
    BY <1>0, <1>1, <2>0, <2>1
  <2>3. \A i \in 0 .. n : f[i] \in V[i]
    BY <1>0, <2>1, <2>2, RecursionInvariant
  <2>. QED BY <2>0, <2>3
<1>4. Q(f)
  <2>1. \A i \in 1 .. n : F[i][f[i - 1]] = Followed(f[i - 1], ms[i])
    BY <1>0, <1>1, <1>3
  <2>2. f = [i \in 0 .. n |-> IF i = 0 THEN <<>> ELSE F[i][f[i - 1]]]
    BY <1>2 DEF Recursion
  <2>3. \A i \in 0 .. n : i # 0 => i \in 1 .. n
    BY <1>0
  <2>. HIDE DEF n
  <2>. QED BY <2>1, <2>2, <2>3
<1>5. LinesOf(ms) = c[n]
  BY DEF LinesOf, Followed
<1>6. Q(c) => LinesSteps(ms, n, c)
  <2>. DEFINE h == [i \in 0 .. n |-> IF i = 0 THEN <<>> ELSE Followed(c[i - 1], ms[i])]
  <2>1. h[0] = <<>>
    BY <1>0
  <2>2. ASSUME NEW i \in 1 .. n PROVE h[i] = Followed(c[i - 1], ms[i])
    <3>1. i \in 0 .. n /\ i # 0
      BY <1>0
    <3>. QED BY <3>1
  <2>3. Q(c) => c = h
    OBVIOUS
  <2>. HIDE DEF h, Q, c
  <2>. QED BY <2>1, <2>2, <2>3 DEF LinesSteps
<1>. HIDE DEF Q
<1>7. Q(c)
  BY <1>4
<1>. QED BY <1>5, <1>6, <1>7

LEMMA LinesAgree ==
  ASSUME NEW ms, NEW ns, NEW n \in Nat, NEW f, NEW g,
         LinesSteps(ms, n, f), LinesSteps(ns, n, g), \A i \in 1 .. n : ms[i] = ns[i]
  PROVE  f[n] = g[n]
<1>. DEFINE P == {k \in Nat : k <= n => f[k] = g[k]}
<1>1. 0 \in P
  BY DEF LinesSteps
<1>2. ASSUME NEW k \in Nat, k \in P PROVE k + 1 \in P
  <2>. SUFFICES ASSUME k + 1 <= n PROVE f[k + 1] = g[k + 1]
    OBVIOUS
  <2>1. k + 1 \in 1 .. n /\ f[k] = g[k] /\ k + 1 - 1 = k
    BY <1>2
  <2>. QED BY <2>1 DEF LinesSteps
<1>. HIDE DEF P
<1>3. Nat \subseteq P
  BY <1>1, <1>2, Induction
<1>. QED BY <1>3 DEF P

LEMMA LinesOfEmpty ==
  ASSUME "NO_LINE_BREAKS" \notin Wants
  PROVE  LinesOf(<<>>) = <<>>
<1>1. <<>> \in Seq(Msgs) /\ Len(<<>>) = 0
  OBVIOUS
<1>2. PICK f : LinesSteps(<<>>, 0, f) /\ LinesOf(<<>>) = f[0]
  BY <1>1, LinesOfIs
<1>. QED BY <1>2 DEF LinesSteps

LEMMA LinesOfAppend ==
  ASSUME NEW ms \in Seq(Msgs), NEW m \in Msgs, "NO_LINE_BREAKS" \notin Wants
  PROVE  LinesOf(Append(ms, m)) = LinesOf(ms) \o Layout[m]
<1>. DEFINE r == Append(ms, m)
            n == Len(ms)
<1>1. r \in Seq(Msgs) /\ Len(r) = n + 1 /\ n \in Nat /\ r[n + 1] = m /\ \A i \in 1 .. n : r[i] = ms[i]
  OBVIOUS
<1>. HIDE DEF r
<1>2. PICK f : LinesSteps(ms, n, f) /\ LinesOf(ms) = f[n]
  BY LinesOfIs
<1>3. PICK g : LinesSteps(r, n + 1, g) /\ LinesOf(r) = g[n + 1]
  BY <1>1, LinesOfIs
<1>. HIDE DEF n
<1>4. LinesSteps(r, n, g)
  BY <1>1, <1>3 DEF LinesSteps
<1>5. g[n] = f[n]
  BY <1>1, <1>2, <1>4, LinesAgree
<1>6. g[n + 1] = Followed(g[n], m)
  <2>1. n + 1 \in 1 .. n + 1 /\ n + 1 - 1 = n
    BY <1>1
  <2>. QED BY <1>1, <1>3, <2>1 DEF LinesSteps
<1>. QED BY <1>2, <1>3, <1>5, <1>6 DEF r, Followed

LEMMA LinesOfType ==
  ASSUME "NO_LINE_BREAKS" \notin Wants
  PROVE  \A ms \in Seq(Msgs) : LinesOf(ms) \in Seq(Lines)
<1>. DEFINE P == {ms \in Seq(Msgs) : LinesOf(ms) \in Seq(Lines)}
<1>1. <<>> \in P
  <2>. DEFINE e == LinesOf(<<>>)
  <2>1. e = <<>>
    BY LinesOfEmpty
  <2>. HIDE DEF e
  <2>2. e \in Seq(Lines)
    BY <2>1
  <2>. QED BY <2>2 DEF e
<1>2. ASSUME NEW ms \in Seq(Msgs), NEW m \in Msgs, ms \in P PROVE Append(ms, m) \in P
  <2>1. LinesOf(ms) \o Layout[m] \in Seq(Lines)
    BY <1>2, LayoutType, Concatenated
  <2>2. Append(ms, m) \in Seq(Msgs)
    OBVIOUS
  <2>. QED BY <2>1, <2>2, LinesOfAppend
<1>. HIDE DEF P
<1>3. Seq(Msgs) \subseteq P
  BY <1>1, <1>2, SequenceInduction
<1>. QED BY <1>3 DEF P

\* The number of lines of the first n messages.
Offset(ms, n) == Len(LinesOf(SubSeq(ms, 1, n)))

\* Each message's lines begin where those of the messages before it end.
Sits(ms, n) ==
  LET s == LinesOf(ms)
      p == Offset(ms, n)
      l == Layout[ms[n + 1]]
  IN  /\ p + Len(l) <= Len(s) /\ Offset(ms, n + 1) = p + Len(l)
      /\ \A i \in 1 .. Len(l) : s[p + i] = l[i]

LEMMA OffsetAppend ==
  ASSUME NEW ms \in Seq(Msgs), NEW m \in Msgs
  PROVE  \A n \in 0 .. Len(ms) : Offset(Append(ms, m), n) = Offset(ms, n)
<1>1. \A n \in 0 .. Len(ms) : SubSeq(Append(ms, m), 1, n) = SubSeq(ms, 1, n)
  OBVIOUS
<1>. QED BY <1>1 DEF Offset

LEMMA OffsetEnds ==
  ASSUME NEW ms \in Seq(Msgs), "NO_LINE_BREAKS" \notin Wants
  PROVE  Offset(ms, 0) = 0 /\ Offset(ms, Len(ms)) = Len(LinesOf(ms))
<1>1. SubSeq(ms, 1, 0) = <<>> /\ SubSeq(ms, 1, Len(ms)) = ms
  OBVIOUS
<1>2. LinesOf(SubSeq(ms, 1, 0)) = <<>>
  BY <1>1, LinesOfEmpty
<1>. QED BY <1>1, <1>2 DEF Offset

LEMMA AllSit ==
  ASSUME "NO_LINE_BREAKS" \notin Wants
  PROVE  \A ms \in Seq(Msgs) : \A n \in 0 .. Len(ms) - 1 : Sits(ms, n)
<1>. DEFINE P == {ms \in Seq(Msgs) : \A n \in 0 .. Len(ms) - 1 : Sits(ms, n)}
<1>1. <<>> \in P
  OBVIOUS
<1>2. ASSUME NEW ms \in Seq(Msgs), NEW m \in Msgs, ms \in P PROVE Append(ms, m) \in P
  <2>. DEFINE r == Append(ms, m)
              s == LinesOf(ms)
              t == LinesOf(r)
              l == Layout[m]
  <2>1. /\ r \in Seq(Msgs) /\ Len(r) = Len(ms) + 1 /\ Len(ms) \in Nat
        /\ r[Len(ms) + 1] = m /\ \A i \in 1 .. Len(ms) : r[i] = ms[i]
    OBVIOUS
  <2>2. \A n \in 0 .. Len(ms) : Offset(r, n) = Offset(ms, n)
    BY OffsetAppend
  <2>3. Offset(ms, Len(ms)) = Len(s) /\ Offset(r, Len(r)) = Len(t)
    BY <2>1, OffsetEnds
  <2>4. s \in Seq(Lines) /\ l \in Seq(Lines) /\ t = s \o l
    BY LinesOfType, LayoutType, LinesOfAppend
  <2>. HIDE DEF r, s, t, l
  <2>5. /\ Len(t) = Len(s) + Len(l) /\ (\A i \in 1 .. Len(s) : t[i] = s[i])
        /\ \A i \in 1 .. Len(l) : t[Len(s) + i] = l[i]
    BY <2>4, Concatenated
  <2>6. ASSUME NEW n \in 0 .. Len(r) - 1 PROVE Sits(r, n)
    <3>1. CASE n = Len(ms)
      <4>1. /\ Offset(r, n) = Len(s) /\ Offset(r, n + 1) = Len(t) /\ Layout[r[n + 1]] = l
            /\ LinesOf(r) = t /\ Len(s) \in Nat /\ Len(l) \in Nat
        BY <2>1, <2>2, <2>3, <2>4, <3>1 DEF t, l
      <4>2. Len(s) + Len(l) <= Len(t)
        BY <2>5, <4>1
      <4>. QED BY <2>5, <4>1, <4>2 DEF Sits
    <3>2. CASE n < Len(ms)
      <4>1. Sits(ms, n) /\ n \in 0 .. Len(ms) /\ n + 1 \in 0 .. Len(ms) /\ n + 1 \in 1 .. Len(ms)
        BY <1>2, <2>1, <3>2
      <4>2. Offset(r, n) = Offset(ms, n) /\ Offset(r, n + 1) = Offset(ms, n + 1) /\ r[n + 1] = ms[n + 1]
        BY <2>1, <2>2, <4>1
      <4>. DEFINE p == Offset(ms, n)
                  k == Layout[ms[n + 1]]
      <4>3. /\ p + Len(k) <= Len(s) /\ Offset(ms, n + 1) = p + Len(k)
            /\ \A i \in 1 .. Len(k) : s[p + i] = k[i]
        BY <4>1 DEF Sits, s
      <4>4. p \in Nat /\ Len(k) \in Nat
        <5>1. SubSeq(ms, 1, n) \in Seq(Msgs) /\ ms[n + 1] \in Msgs
          BY <4>1
        <5>2. LinesOf(SubSeq(ms, 1, n)) \in Seq(Lines) /\ k \in Seq(Lines)
          BY <5>1, LinesOfType, LayoutType
        <5>. QED BY <5>2 DEF Offset
      <4>. HIDE DEF p, k
      <4>5. \A i \in 1 .. Len(k) : p + i \in 1 .. Len(s)
        BY <2>4, <4>3, <4>4
      <4>6. Len(s) \in Nat /\ Len(l) \in Nat
        BY <2>4
      <4>7. p + Len(k) <= Len(t) /\ \A i \in 1 .. Len(k) : t[p + i] = k[i]
        <5>1. p + Len(k) <= Len(t)
          BY <2>5, <4>3, <4>4, <4>6
        <5>2. \A i \in 1 .. Len(k) : t[p + i] = s[p + i] /\ s[p + i] = k[i]
          BY <2>5, <4>3, <4>5
        <5>. QED BY <5>1, <5>2
      <4>. QED BY <4>2, <4>3, <4>7 DEF Sits, p, k, t
    <3>. QED BY <2>1, <3>1, <3>2
  <2>. QED BY <2>1, <2>6 DEF r
<1>. HIDE DEF P
<1>3. Seq(Msgs) \subseteq P
  BY <1>1, <1>2, SequenceInduction
<1>. QED BY <1>3 DEF P

-----------------------------------------------------------------------------
(* By file: a pass over the file.                                           *)

LEMMA NextMarkIs ==
  ASSUME NEW lines \in Seq(Lines), NEW n \in Nat, NEW k \in 1 .. Len(lines), k > n,
         lines[k].mark, \A i \in 1 .. Len(lines) : n < i /\ i < k => ~lines[i].mark
  PROVE  NextMark(lines, n) = k
<1>. DEFINE marked == {i \in DOMAIN lines : i > n /\ lines[i].mark}
            c == CHOOSE i \in marked : \A j \in marked : i <= j
<1>1. DOMAIN lines = 1 .. Len(lines) /\ Len(lines) \in Nat
  OBVIOUS
<1>2. k \in marked /\ \A j \in marked : j \in Nat /\ k <= j
  BY <1>1
<1>3. NextMark(lines, n) = c
  BY <1>2 DEF NextMark
<1>. HIDE DEF marked
<1>4. c \in marked /\ \A j \in marked : c <= j
  BY <1>2
<1>. HIDE DEF c
<1>. QED BY <1>2, <1>3, <1>4

LEMMA NoMark ==
  ASSUME NEW lines \in Seq(Lines), NEW n \in Nat, n >= Len(lines)
  PROVE  NextMark(lines, n) = 0
<1>1. {i \in DOMAIN lines : i > n /\ lines[i].mark} = {}
  OBVIOUS
<1>. QED BY <1>1 DEF NextMark

LEMMA TextIs ==
  ASSUME NEW lines, NEW head, NEW k \in Nat \ {0}, NextMark(lines, head) = k
  PROVE  TextOf(lines, head) = SubSeq(lines, head + 1, k - 1)
BY DEF TextOf

\* A message as it should come out.
EntryOf(m) ==
  [msg  |-> m,
   kind |-> "head",
   sev  |-> IF HeadFits THEN m.sev ELSE "SERROR",
   text |-> SubSeq(Layout[m], 2, Len(Layout[m]) - 1)]

LEMMA LineIs ==
  ASSUME NEW m, NEW kind
  PROVE  /\ Line(m, kind).msg = m /\ Line(m, kind).kind = kind
         /\ Line(m, kind).mark <=> kind \in {"head", "trailer"}
BY DEF Line

LEMMA TextLineIs ==
  ASSUME NEW m, NEW i
  PROVE  /\ TextLine(m, i).msg = m /\ TextLine(m, i).kind = "text"
         /\ TextLine(m, i).mark <=> i \in m.marks
BY DEF TextLine

\* A pass from the start of a message without a mark in its text reads this one, up to
\* the start of the next.
LEMMA PassReads ==
  ASSUME NEW ms \in Seq(Msgs), NEW n \in 0 .. Len(ms) - 1, "NO_LINE_BREAKS" \notin Wants,
         ms[n + 1].marks = {}
  PROVE  LET s == LinesOf(ms)
             p == Offset(ms, n)
         IN  /\ NextMark(s, p) = p + 1
             /\ ReadNext(s, p + 1) = EntryOf(ms[n + 1])
             /\ EndOf(s, p + 1) = Offset(ms, n + 1)
<1>. DEFINE s == LinesOf(ms)
            p == Offset(ms, n)
            m == ms[n + 1]
            l == Layout[m]
            t == TextLines(m)
<1>1. m \in Msgs /\ t \in Nat
  <2>1. m \in Msgs
    OBVIOUS
  <2>. QED BY <2>1, LogFileAssumption DEF TextLines
<1>2. s \in Seq(Lines) /\ p \in Nat
  <2>1. SubSeq(ms, 1, n) \in Seq(Msgs)
    OBVIOUS
  <2>. QED BY <2>1, LinesOfType DEF Offset
<1>3. /\ p + Len(l) <= Len(s) /\ Offset(ms, n + 1) = p + Len(l)
      /\ \A i \in 1 .. Len(l) : s[p + i] = l[i]
  <2>1. Sits(ms, n)
    BY AllSit
  <2>. QED BY <2>1 DEF Sits
<1>0. m.marks = {}
  OBVIOUS
<1>. HIDE DEF m
<1>4. PICK a \in 1 .. 3 : LaidOut(m, a, l)
  BY <1>1, LayoutIs
<1>. HIDE DEF s, p, l, t
<1>5. /\ l \in Seq(Lines) /\ Len(l) = a + t + 1 /\ l[1] = Line(m, "head")
      /\ (\A i \in 2 .. a : l[i] \in {Line(m, "epilogue"), Line(m, "stamp")})
      /\ (\A i \in a + 1 .. a + t : l[i] = TextLine(m, i - a))
      /\ l[a + t + 1] = Line(m, "trailer")
  BY <1>4 DEF LaidOut, t
<1>6. \A i \in 2 .. a + t : ~l[i].mark
  <2>. SUFFICES ASSUME NEW i \in 2 .. a + t PROVE ~l[i].mark
    OBVIOUS
  <2>1. i \in 2 .. a \/ i \in a + 1 .. a + t
    BY <1>1
  <2>2. l[i] \in {Line(m, "epilogue"), Line(m, "stamp"), TextLine(m, i - a)}
    BY <1>5, <2>1
  <2>. QED BY <1>0, <2>2, LineIs, TextLineIs
<1>7. Len(s) \in Nat /\ p + 1 \in 1 .. Len(s) /\ p + Len(l) \in 1 .. Len(s)
      /\ 1 \in 1 .. Len(l) /\ Len(l) \in 1 .. Len(l)
  BY <1>1, <1>2, <1>3, <1>5
<1>8. s[p + 1] = Line(m, "head") /\ s[p + Len(l)] = Line(m, "trailer")
  BY <1>3, <1>5, <1>7
<1>9. NextMark(s, p) = p + 1
  <2>1. s[p + 1].mark /\ p + 1 > p
    BY <1>2, <1>8, LineIs
  <2>2. \A i \in 1 .. Len(s) : p < i /\ i < p + 1 => ~s[i].mark
    BY <1>2
  <2>. QED BY <1>2, <1>7, <2>1, <2>2, NextMarkIs
<1>10. NextMark(s, p + 1) = p + Len(l)
  <2>1. ASSUME NEW i \in 1 .. Len(s), p + 1 < i, i < p + Len(l) PROVE ~s[i].mark
    <3>1. i - p \in 1 .. Len(l) /\ p + (i - p) = i /\ i - p \in 2 .. a + t
      BY <1>1, <1>2, <1>5, <2>1
    <3>. QED BY <1>3, <1>6, <3>1
  <2>2. s[p + Len(l)].mark /\ p + Len(l) > p + 1 /\ p + 1 \in Nat
    BY <1>1, <1>2, <1>5, <1>8, LineIs
  <2>. QED BY <1>2, <1>7, <2>1, <2>2, NextMarkIs
<1>11. EndOf(s, p + 1) = Offset(ms, n + 1)
  BY <1>3, <1>7, <1>10 DEF EndOf
<1>12. TextOf(s, p + 1) = SubSeq(l, 2, Len(l) - 1)
  <2>. DEFINE x == SubSeq(s, p + 2, p + Len(l) - 1)
              y == SubSeq(l, 2, Len(l) - 1)
  <2>1. TextOf(s, p + 1) = x
    <3>1. p + Len(l) # 0 /\ p + 1 + 1 = p + 2
      BY <1>2, <1>7
    <3>2. TextOf(s, p + 1) = SubSeq(s, p + 1 + 1, p + Len(l) - 1)
      <4>1. p + Len(l) \in Nat \ {0} /\ p + Len(l) - 1 = (p + Len(l)) - 1
        BY <1>2, <1>5, <1>7
      <4>2. TextOf(s, p + 1) = SubSeq(s, p + 1 + 1, (p + Len(l)) - 1)
        BY <1>10, <4>1, TextIs
      <4>. QED BY <4>1, <4>2
    <3>. QED BY <3>1, <3>2
  <2>2. x \in Seq(Lines) /\ Len(x) = Len(l) - 2 /\ \A i \in 1 .. Len(l) - 2 : x[i] = s[p + 1 + i]
    <3>1. p + 2 \in 1 .. Len(s) + 1 /\ p + Len(l) - 1 \in Nat /\ p + 2 <= p + Len(l) - 1 + 1
          /\ p + Len(l) - 1 <= Len(s) /\ p + Len(l) - 1 - (p + 2) + 1 = Len(l) - 2
      BY <1>1, <1>2, <1>5, <1>7
    <3>2. \A i \in 1 .. Len(l) - 2 : p + 2 + i - 1 = p + 1 + i
      BY <1>2, <1>7
    <3>. HIDE DEF x
    <3>3. x \in Seq(Lines) /\ Len(x) = Len(l) - 2 /\ \A i \in 1 .. Len(l) - 2 : x[i] = s[p + 2 + i - 1]
      BY <1>2, <3>1, Part DEF x
    <3>. QED BY <3>2, <3>3
  <2>3. y \in Seq(Lines) /\ Len(y) = Len(l) - 2 /\ \A i \in 1 .. Len(l) - 2 : y[i] = l[i + 1]
    <3>1. 2 \in 1 .. Len(l) + 1 /\ Len(l) - 1 \in Nat /\ 2 <= Len(l) - 1 + 1
          /\ Len(l) - 1 <= Len(l) /\ Len(l) - 1 - 2 + 1 = Len(l) - 2
      BY <1>1, <1>5
    <3>2. \A i \in 1 .. Len(l) - 2 : 2 + i - 1 = i + 1
      OBVIOUS
    <3>. HIDE DEF y
    <3>3. y \in Seq(Lines) /\ Len(y) = Len(l) - 2 /\ \A i \in 1 .. Len(l) - 2 : y[i] = l[2 + i - 1]
      BY <1>5, <3>1, Part DEF y
    <3>. QED BY <3>2, <3>3
  <2>4. \A i \in 1 .. Len(l) - 2 : s[p + 1 + i] = l[i + 1]
    <3>. SUFFICES ASSUME NEW i \in 1 .. Len(l) - 2 PROVE s[p + 1 + i] = l[i + 1]
      OBVIOUS
    <3>1. i + 1 \in 1 .. Len(l) /\ p + (i + 1) = p + 1 + i
      BY <1>2, <1>7
    <3>. QED BY <1>3, <3>1
  <2>. HIDE DEF x, y
  <2>5. x = y
    <3>1. \A i \in 1 .. Len(x) : x[i] = y[i]
      BY <2>2, <2>3, <2>4
    <3>. QED BY <2>2, <2>3, <3>1, SameSeq
  <2>. QED BY <2>1, <2>5 DEF y
<1>13. ReadNext(s, p + 1) = EntryOf(m)
  <2>1. s[p + 1].kind = "head" /\ s[p + 1].msg = m
    BY <1>8, LineIs
  <2>2. (IF s[p + 1].kind = "head" /\ HeadFits THEN s[p + 1].msg.sev ELSE "SERROR")
          = IF HeadFits THEN m.sev ELSE "SERROR"
    BY <2>1
  <2>. QED BY <1>12, <2>1, <2>2, Zenon DEF ReadNext, EntryOf, l
<1>. QED BY <1>9, <1>11, <1>13 DEF s, p, m

\* A message that is read is whole.
WholeEntry(e) ==
  /\ e.kind = "head"
  /\ HeadFits => e.sev = e.msg.sev
  /\ Range(e.text) \subseteq Range(Layout[e.msg])
  /\ Cardinality({j \in DOMAIN e.text : e.text[j].kind = "text"})
       = IF "TEXT" \in Wants THEN e.msg.lines ELSE 0

LEMMA EntryIsWhole ==
  ASSUME NEW m \in Msgs, "NO_LINE_BREAKS" \notin Wants
  PROVE  WholeEntry(EntryOf(m)) /\ EntryOf(m).msg = m /\ EntryOf(m).sev \in Severities
<1>. DEFINE l == Layout[m]
            t == TextLines(m)
            y == SubSeq(l, 2, Len(l) - 1)
            e == EntryOf(m)
<1>1. t \in Nat
  BY LogFileAssumption DEF TextLines
<1>2. PICK a \in 1 .. 3 : LaidOut(m, a, l)
  BY LayoutIs
<1>. HIDE DEF l
<1>3. /\ l \in Seq(Lines) /\ Len(l) = a + t + 1 /\ l[1] = Line(m, "head")
      /\ (\A i \in 2 .. a : l[i] \in {Line(m, "epilogue"), Line(m, "stamp")})
      /\ (\A i \in a + 1 .. a + t : l[i] = TextLine(m, i - a))
  BY <1>2 DEF LaidOut
<1>. HIDE DEF t
<1>4. y \in Seq(Lines) /\ Len(y) = a + t - 1 /\ \A i \in 1 .. a + t - 1 : y[i] = l[i + 1]
  <2>1. 2 \in 1 .. Len(l) + 1 /\ Len(l) - 1 \in Nat /\ 2 <= Len(l) - 1 + 1
        /\ Len(l) - 1 <= Len(l) /\ Len(l) - 1 - 2 + 1 = a + t - 1
    BY <1>1, <1>3
  <2>2. \A i \in 1 .. a + t - 1 : 2 + i - 1 = i + 1
    OBVIOUS
  <2>. HIDE DEF y
  <2>3. y \in Seq(Lines) /\ Len(y) = a + t - 1 /\ \A i \in 1 .. a + t - 1 : y[i] = l[2 + i - 1]
    BY <1>3, <2>1, Part DEF y
  <2>. QED BY <2>2, <2>3
<1>5. e.msg = m /\ e.kind = "head" /\ e.sev = (IF HeadFits THEN m.sev ELSE "SERROR") /\ e.text = y
  BY DEF EntryOf, l
<1>. HIDE DEF y, e
<1>6. DOMAIN y = 1 .. a + t - 1 /\ DOMAIN l = 1 .. a + t + 1
  BY <1>1, <1>3, <1>4
<1>7. Range(y) \subseteq Range(l)
  <2>1. \A i \in DOMAIN y : i + 1 \in DOMAIN l /\ y[i] = l[i + 1]
    BY <1>1, <1>4, <1>6
  <2>. QED BY <2>1 DEF Range
<1>8. {j \in DOMAIN y : y[j].kind = "text"} = a .. a + t - 1
  <2>1. ASSUME NEW j \in 1 .. a + t - 1 PROVE y[j].kind = "text" <=> j \in a .. a + t - 1
    <3>1. y[j] = l[j + 1]
      BY <1>4
    <3>2. CASE j < a
      <4>1. j + 1 \in 2 .. a
        BY <3>2
      <4>2. l[j + 1] \in {Line(m, "epilogue"), Line(m, "stamp")}
        BY <1>3, <4>1
      <4>. QED BY <3>1, <3>2, <4>2, LineIs
    <3>3. CASE j >= a
      <4>1. j + 1 \in a + 1 .. a + t
        BY <1>1, <3>3
      <4>2. l[j + 1] = TextLine(m, j + 1 - a)
        BY <1>3, <4>1
      <4>. QED BY <3>1, <3>3, <4>2, TextLineIs
    <3>. QED BY <3>2, <3>3
  <2>2. a .. a + t - 1 \subseteq 1 .. a + t - 1
    OBVIOUS
  <2>. QED BY <1>6, <2>1, <2>2
<1>9. Cardinality(a .. a + t - 1) = t
  <2>1. Cardinality(a .. a + t - 1) = IF a > a + t - 1 THEN 0 ELSE a + t - 1 - a + 1
    BY <1>1, FS_Interval
  <2>. QED BY <1>1, <2>1
<1>10. e.sev \in Severities
  BY <1>5, LogReaderAssumption DEF Severities
<1>. QED BY <1>5, <1>7, <1>8, <1>9, <1>10 DEF WholeEntry, e, l, t, TextLines

-----------------------------------------------------------------------------
(* By file: the invariant.                                                  *)

\* Files that a receiver can follow: messages have a last line, and a file that is there
\* is not cut off when it is opened.
ReadableFiles == Appends /\ "NO_LINE_BREAKS" \notin Wants

\* Files grow, and one whose receiver is in step has the lines of the messages written to
\* it, none of which has a mark in its text.
FilesTrue ==
  /\ written \in [FileNames -> Seq(Msgs)]
  /\ outputs \subseteq DOMAIN file /\ DOMAIN file \subseteq FileNames
  /\ \A f \in DOMAIN file : file[f] \in Seq(Lines)
  /\ unflushed \in Seq(Lines)
  /\ \A i \in 1 .. Len(unflushed) :
       unflushed[i].msg \in ByLine /\ FileName(unflushed[i].msg) \in DOMAIN file
  /\ \A r \in InStep :
       /\ \A i \in 1 .. Len(written[FileOf[r]]) : written[FileOf[r]][i].marks = {}
       /\ IF FileOf[r] \in DOMAIN file THEN file[FileOf[r]] = LinesOf(written[FileOf[r]])
                                        ELSE written[FileOf[r]] = <<>>

\* What is loaded may run, until all have been waited for.
ThreadsTrue ==
  /\ ThreadsTypeOK
  /\ receivers \subseteq Loadable
  /\ manager \in {"stopped", "gone"} => running = {}

\* What may come out of a receiver.
Entries == [msg : Msgs, kind : LineKinds, sev : Severities, text : Seq(Lines)]

\* The receiver has read the first messages of its file and is at the start of the next.
InPlace(w, e, p) ==
  /\ Len(e) <= Len(w) /\ p = Offset(w, Len(e))
  /\ \A i \in 1 .. Len(e) : e[i] = EntryOf(w[i])

\* The receiver is somewhere in its file.
Bounded(f, p) == p <= IF f \in DOMAIN file THEN Len(file[f]) ELSE 0

PlacesTrue ==
  /\ pos \in [Configured -> Nat] /\ counter \in [Configured -> Nat]
  /\ emitted \in [Configured -> Seq(Entries)]
  /\ \A r \in Configured : Bounded(FileOf[r], pos[r]) /\ counter[r] = Len(emitted[r])
  /\ \A r \in InStep : InPlace(written[FileOf[r]], emitted[r], pos[r])

ReaderIInv == FilesTrue /\ ThreadsTrue /\ PlacesTrue

LEMMA InStepIsConfigured == InStep \subseteq Configured /\ \A r \in Configured : FileOf[r] \in FileNames
BY LogReaderAssumption DEF InStep

LEMMA EntryType ==
  ASSUME NEW m \in Msgs, "NO_LINE_BREAKS" \notin Wants
  PROVE  EntryOf(m) \in Entries
<1>. DEFINE l == Layout[m]
            y == SubSeq(l, 2, Len(l) - 1)
<1>1. PICK a \in 1 .. 3 : LaidOut(m, a, l)
  BY LayoutIs
<1>2. TextLines(m) \in Nat
  BY LogFileAssumption DEF TextLines
<1>. HIDE DEF l
<1>3. l \in Seq(Lines) /\ Len(l) >= 2 /\ Len(l) \in Nat
  BY <1>1, <1>2 DEF LaidOut
<1>4. y \in Seq(Lines)
  <2>1. 2 \in 1 .. Len(l) + 1 /\ Len(l) - 1 \in Nat /\ 2 <= Len(l) - 1 + 1 /\ Len(l) - 1 <= Len(l)
    BY <1>3
  <2>. QED BY <1>3, <2>1, Part
<1>5. m.sev \in Severities /\ "SERROR" \in Severities
  BY LogReaderAssumption DEF Severities
<1>. QED BY <1>4, <1>5 DEF EntryOf, Entries, LineKinds, l

LEMMA OffsetBound ==
  ASSUME NEW ms \in Seq(Msgs), "NO_LINE_BREAKS" \notin Wants
  PROVE  \A n \in 0 .. Len(ms) : Offset(ms, n) \in Nat /\ Offset(ms, n) <= Len(LinesOf(ms))
<1>. SUFFICES ASSUME NEW n \in 0 .. Len(ms)
              PROVE  Offset(ms, n) \in Nat /\ Offset(ms, n) <= Len(LinesOf(ms))
  OBVIOUS
<1>1. SubSeq(ms, 1, n) \in Seq(Msgs) /\ Len(ms) \in Nat
  OBVIOUS
<1>2. LinesOf(SubSeq(ms, 1, n)) \in Seq(Lines) /\ LinesOf(ms) \in Seq(Lines)
  BY <1>1, LinesOfType
<1>3. Offset(ms, n) \in Nat /\ Len(LinesOf(ms)) \in Nat
  BY <1>2 DEF Offset
<1>4. CASE n = Len(ms)
  BY <1>3, <1>4, OffsetEnds
<1>5. CASE n < Len(ms)
  <2>1. Sits(ms, n) /\ ms[n + 1] \in Msgs
    BY <1>5, AllSit
  <2>2. Len(Layout[ms[n + 1]]) \in Nat
    BY <2>1, LayoutType
  <2>. QED BY <1>3, <2>1, <2>2 DEF Sits
<1>. QED BY <1>1, <1>4, <1>5

\* More messages in the file leave the receiver in place.
LEMMA StaysInPlace ==
  ASSUME NEW w \in Seq(Msgs), NEW m \in Msgs, NEW e \in Seq(Entries), NEW p, InPlace(w, e, p)
  PROVE  InPlace(Append(w, m), e, p)
<1>1. Len(Append(w, m)) = Len(w) + 1 /\ Len(w) \in Nat /\ Len(e) \in Nat
      /\ \A i \in 1 .. Len(w) : Append(w, m)[i] = w[i]
  OBVIOUS
<1>2. Offset(Append(w, m), Len(e)) = Offset(w, Len(e))
  BY <1>1, OffsetAppend DEF InPlace
<1>. QED BY <1>1, <1>2 DEF InPlace

LEMMA InitReader ==
  ASSUME ReadableFiles, Init
  PROVE  ReaderIInv
<1>1. FilesTrue
  <2>1. \A f \in DOMAIN Old : Old[f] \in Seq(Msgs)
    BY LogFileAssumption
  <2>2. written \in [FileNames -> Seq(Msgs)]
    <3>1. <<>> \in Seq(Msgs)
      OBVIOUS
    <3>. QED BY <2>1, <3>1 DEF Init, LogInit
  <2>3. \A f \in DOMAIN Old : LinesOf(Old[f]) \in Seq(Lines)
    BY <2>1, LinesOfType DEF ReadableFiles
  <2>4. DOMAIN file = DOMAIN Old /\ \A f \in DOMAIN Old : file[f] = LinesOf(Old[f])
    BY DEF Init, LogInit
  <2>5. \A f \in DOMAIN file : file[f] \in Seq(Lines)
    BY <2>3, <2>4
  <2>6. unflushed = <<>> /\ outputs = {} /\ DOMAIN file \subseteq FileNames
    BY <2>4 DEF Init, LogInit, FileNames
  <2>7. ASSUME NEW r \in InStep
        PROVE  /\ \A i \in 1 .. Len(written[FileOf[r]]) : written[FileOf[r]][i].marks = {}
               /\ IF FileOf[r] \in DOMAIN file THEN file[FileOf[r]] = LinesOf(written[FileOf[r]])
                                                ELSE written[FileOf[r]] = <<>>
    <3>. DEFINE f == FileOf[r]
    <3>1. f \in FileNames
      BY InStepIsConfigured
    <3>2. written[f] = IF f \in DOMAIN Old THEN Old[f] ELSE <<>>
      BY <3>1 DEF Init, LogInit
    <3>3. CASE f \in DOMAIN Old
      <4>1. \A i \in 1 .. Len(Old[f]) : Old[f][i] \in Msgs /\ Old[f][i] \in Range(Old[f])
        BY <2>1, <3>3 DEF Range
      <4>2. \A i \in 1 .. Len(Old[f]) : Old[f][i].marks = {}
        BY <3>3, <4>1 DEF InStep
      <4>. QED BY <2>4, <3>2, <3>3, <4>2
    <3>4. CASE f \notin DOMAIN Old
      <4>1. written[f] = <<>>
        BY <3>2, <3>4
      <4>2. \A i \in 1 .. Len(written[f]) : written[f][i].marks = {}
        BY <4>1
      <4>. QED BY <2>4, <3>4, <4>1, <4>2
    <3>. QED BY <3>3, <3>4
  <2>8. unflushed \in Seq(Lines) /\ Len(unflushed) = 0
    BY <2>6
  <2>. QED BY <2>2, <2>5, <2>6, <2>7, <2>8 DEF FilesTrue
<1>2. ThreadsTrue
  BY DEF Init, ThreadsInit, ThreadsTrue, ThreadsTypeOK
<1>3. PlacesTrue
  <2>. DEFINE e == <<>>
  <2>0. e \in Seq(Entries) /\ Len(e) = 0
    OBVIOUS
  <2>1. pos = [r \in Configured |-> 0] /\ counter = [r \in Configured |-> 0]
        /\ emitted = [r \in Configured |-> e]
    BY DEF Init
  <2>. HIDE DEF e
  <2>2. \A r \in Configured : written[FileOf[r]] \in Seq(Msgs)
    BY <1>1, LogReaderAssumption DEF FilesTrue
  <2>3. \A r \in Configured : InPlace(written[FileOf[r]], e, 0) /\ Bounded(FileOf[r], 0)
    <3>. SUFFICES ASSUME NEW r \in Configured
                  PROVE  InPlace(written[FileOf[r]], e, 0) /\ Bounded(FileOf[r], 0)
      OBVIOUS
    <3>1. Offset(written[FileOf[r]], 0) = 0 /\ Len(written[FileOf[r]]) \in Nat
      BY <2>2, OffsetEnds DEF ReadableFiles
    <3>2. FileOf[r] \in DOMAIN file => Len(file[FileOf[r]]) \in Nat
      BY <1>1 DEF FilesTrue
    <3>. QED BY <2>0, <3>1, <3>2 DEF InPlace, Bounded
  <2>4. \A r \in Configured : emitted[r] = e /\ pos[r] = 0 /\ counter[r] = 0
    BY <2>1
  <2>. QED BY <2>0, <2>1, <2>3, <2>4, InStepIsConfigured DEF PlacesTrue
<1>. QED BY <1>1, <1>2, <1>3 DEF ReaderIInv

LEMMA RouteReader ==
  ASSUME ReadableFiles, ReaderIInv, NEW m \in Msgs, Route(m),
         UNCHANGED <<threadVars, readerVars>>
  PROVE  ReaderIInv'
<1>. DEFINE f == FileName(m)
            o == Opened(f)
            l == Layout[m]
<1>1. /\ written \in [FileNames -> Seq(Msgs)] /\ f \in FileNames
      /\ written' = [written EXCEPT ![f] = Append(@, m)]
  BY DEF ReaderIInv, FilesTrue, Route, ReadableFiles, FileNames
<1>2. /\ written' \in [FileNames -> Seq(Msgs)] /\ written'[f] = Append(written[f], m)
      /\ \A g \in FileNames : g # f => written'[g] = written[g]
  BY <1>1
<1>3. o = (IF f \in DOMAIN file THEN file[f] ELSE <<>>) /\ o \in Seq(Lines)
  <2>1. o = IF f \in DOMAIN file THEN file[f] ELSE <<>>
    BY DEF Opened, ReadableFiles
  <2>. HIDE DEF o
  <2>2. ASSUME f \in DOMAIN file PROVE o \in Seq(Lines)
    BY <2>1, <2>2 DEF ReaderIInv, FilesTrue
  <2>3. ASSUME f \notin DOMAIN file PROVE o \in Seq(Lines)
    <3>1. o = <<>>
      BY <2>1, <2>3
    <3>. QED BY <3>1
  <2>. QED BY <2>1, <2>2, <2>3
<1>4. l \in Seq(Lines) /\ l # <<>> /\ \A i \in 1 .. Len(l) : l[i].msg = m
  <2>1. PICK a \in 1 .. 3 : LaidOut(m, a, l)
    BY LayoutIs DEF ReadableFiles
  <2>2. TextLines(m) \in Nat
    BY LogFileAssumption DEF TextLines
  <2>. HIDE DEF l
  <2>3. l \in Seq(Lines) /\ Len(l) = a + TextLines(m) + 1
    BY <2>1 DEF LaidOut
  <2>4. ASSUME NEW i \in 1 .. Len(l) PROVE l[i].msg = m
    <3>1. i = 1 \/ i \in 2 .. a \/ i \in a + 1 .. a + TextLines(m) \/ i = a + TextLines(m) + 1
      BY <2>2, <2>3
    <3>2. l[i] \in {Line(m, k) : k \in {"head", "epilogue", "stamp", "trailer"}}
          \/ l[i] = TextLine(m, i - a)
      BY <2>1, <3>1 DEF LaidOut
    <3>. QED BY <3>2, LineIs, TextLineIs
  <2>. QED BY <2>2, <2>3, <2>4
<1>5. PICK x \in Seq(Lines) :
        /\ file' = With(f, o \o x)
        /\ unflushed' \in Seq(Lines)
        /\ \A i \in 1 .. Len(unflushed') : unflushed'[i].msg = m
        /\ m \notin ByLine => x = l /\ unflushed' = <<>>
        /\ m \in ByLine \/ unflushed' = <<>>
  <2>1. CASE m \notin ByLine
    <3>1. file' = With(f, o \o l) /\ unflushed' = <<>>
      BY <2>1 DEF Route
    <3>. QED BY <1>4, <2>1, <3>1
  <2>2. CASE m \in ByLine
    <3>1. file' = With(f, o \o <<Head(l)>>) /\ unflushed' = Tail(l)
      BY <2>2 DEF Route
    <3>. HIDE DEF l
    <3>2. <<Head(l)>> \in Seq(Lines)
      <4>1. Head(l) \in Lines
        BY <1>4
      <4>. QED BY <4>1
    <3>3. Tail(l) \in Seq(Lines) /\ Len(Tail(l)) = Len(l) - 1 /\ Len(l) \in Nat
          /\ \A i \in 1 .. Len(l) - 1 : Tail(l)[i] = l[i + 1]
      BY <1>4
    <3>4. \A i \in 1 .. Len(Tail(l)) : Tail(l)[i].msg = m
      <4>1. \A i \in 1 .. Len(Tail(l)) : i + 1 \in 1 .. Len(l)
        BY <3>3
      <4>. QED BY <1>4, <3>3, <4>1
    <3>. QED BY <2>2, <3>1, <3>2, <3>3, <3>4
  <2>. QED BY <2>1, <2>2
<1>6. o \o x \in Seq(Lines)
  <2>. HIDE DEF o
  <2>. QED BY <1>3, Concatenated
<1>. HIDE DEF o, l
<1>7. /\ DOMAIN file' = DOMAIN file \cup {f} /\ file'[f] = o \o x
      /\ \A g \in DOMAIN file : g # f => file'[g] = file[g]
  <2>. DEFINE y == o \o x
  <2>1. file' = With(f, y)
    BY <1>5
  <2>. HIDE DEF y
  <2>2. /\ DOMAIN file' = DOMAIN file \cup {f} /\ file'[f] = y
        /\ \A g \in DOMAIN file : g # f => file'[g] = file[g]
    BY <2>1 DEF With
  <2>. QED BY <2>2 DEF y
<1>8. ASSUME NEW r \in InStep
      PROVE  /\ \A i \in 1 .. Len(written'[FileOf[r]]) : written'[FileOf[r]][i].marks = {}
             /\ IF FileOf[r] \in DOMAIN file' THEN file'[FileOf[r]] = LinesOf(written'[FileOf[r]])
                                               ELSE written'[FileOf[r]] = <<>>
  <2>0. FileOf[r] \in FileNames
    BY InStepIsConfigured
  <2>00. /\ \A i \in 1 .. Len(written[FileOf[r]]) : written[FileOf[r]][i].marks = {}
         /\ IF FileOf[r] \in DOMAIN file THEN file[FileOf[r]] = LinesOf(written[FileOf[r]])
                                          ELSE written[FileOf[r]] = <<>>
    BY DEF ReaderIInv, FilesTrue
  <2>1. CASE FileOf[r] # f
    BY <1>2, <1>7, <2>0, <2>00, <2>1
  <2>2. CASE FileOf[r] = f
    <3>0. m.marks = {} /\ m \notin ByLine
      BY <2>2 DEF InStep
    <3>1. x = l
      BY <1>5, <3>0
    <3>2. o = LinesOf(written[f])
      <4>1. CASE f \in DOMAIN file
        BY <1>3, <2>00, <2>2, <4>1
      <4>2. CASE f \notin DOMAIN file
        <5>1. written[f] = <<>> /\ o = <<>>
          BY <1>3, <2>00, <2>2, <4>2
        <5>2. LinesOf(<<>>) = <<>>
          BY LinesOfEmpty DEF ReadableFiles
        <5>. QED BY <5>1, <5>2
      <4>. QED BY <4>1, <4>2
    <3>3. written[f] \in Seq(Msgs)
      BY <1>1
    <3>4. LinesOf(Append(written[f], m)) = LinesOf(written[f]) \o l
      BY <3>3, LinesOfAppend DEF ReadableFiles, l
    <3>5. file'[f] = LinesOf(written'[f]) /\ f \in DOMAIN file'
      BY <1>2, <1>7, <3>1, <3>2, <3>4
    <3>6. \A i \in 1 .. Len(written'[f]) : written'[f][i].marks = {}
      <4>1. /\ Len(written'[f]) = Len(written[f]) + 1 /\ written'[f][Len(written[f]) + 1] = m
            /\ \A i \in 1 .. Len(written[f]) : written'[f][i] = written[f][i]
        BY <1>2, <3>3
      <4>2. \A i \in 1 .. Len(written'[f]) : i \in 1 .. Len(written[f]) \/ i = Len(written[f]) + 1
        BY <3>3, <4>1
      <4>. QED BY <2>00, <2>2, <3>0, <4>1, <4>2
    <3>. QED BY <2>2, <3>5, <3>6
  <2>. QED BY <2>1, <2>2
<1>9. outputs' \subseteq DOMAIN file' /\ DOMAIN file' \subseteq FileNames
  BY <1>1, <1>7 DEF ReaderIInv, FilesTrue, Route
<1>10. \A g \in DOMAIN file' : file'[g] \in Seq(Lines)
  BY <1>6, <1>7 DEF ReaderIInv, FilesTrue
<1>11. \A i \in 1 .. Len(unflushed') :
         unflushed'[i].msg \in ByLine /\ FileName(unflushed'[i].msg) \in DOMAIN file'
  <2>1. CASE m \in ByLine
    BY <1>5, <1>7, <2>1
  <2>2. CASE m \notin ByLine
    <3>1. Len(unflushed') = 0
      BY <1>5, <2>2
    <3>. QED BY <3>1
  <2>. QED BY <2>1, <2>2
<1>12. FilesTrue'
  BY <1>2, <1>5, <1>8, <1>9, <1>10, <1>11 DEF FilesTrue
<1>13. ThreadsTrue'
  BY DEF ReaderIInv, ThreadsTrue, ThreadsTypeOK, threadVars
<1>14. PlacesTrue'
  <2>1. /\ pos' = pos /\ counter' = counter /\ emitted' = emitted
        /\ pos \in [Configured -> Nat] /\ counter \in [Configured -> Nat]
        /\ emitted \in [Configured -> Seq(Entries)]
    BY DEF ReaderIInv, PlacesTrue, readerVars
  <2>2. ASSUME NEW r \in InStep PROVE InPlace(written'[FileOf[r]], emitted[r], pos[r])
    <3>1. /\ InPlace(written[FileOf[r]], emitted[r], pos[r]) /\ FileOf[r] \in FileNames
          /\ written[FileOf[r]] \in Seq(Msgs) /\ emitted[r] \in Seq(Entries)
      BY <1>1, <2>1, InStepIsConfigured DEF ReaderIInv, PlacesTrue
    <3>2. written'[FileOf[r]] \in {written[FileOf[r]], Append(written[FileOf[r]], m)}
      BY <1>2, <3>1
    <3>. QED BY <3>1, <3>2, StaysInPlace
  <2>3. ASSUME NEW r \in Configured PROVE Bounded(FileOf[r], pos[r])'
    <3>. DEFINE g == FileOf[r]
    <3>1. Bounded(g, pos[r]) /\ pos[r] \in Nat
      BY <2>1 DEF ReaderIInv, PlacesTrue
    <3>2. CASE g \in DOMAIN file /\ g # f
      BY <1>7, <2>1, <3>1, <3>2 DEF Bounded
    <3>3. CASE g \in DOMAIN file /\ g = f
      <4>1. o = file[g] /\ o \in Seq(Lines) /\ Len(o \o x) = Len(o) + Len(x) /\ Len(x) \in Nat
        BY <1>3, <1>5, <3>3, Concatenated
      <4>2. file'[g] = o \o x /\ g \in DOMAIN file'
        BY <1>7, <3>3
      <4>. QED BY <2>1, <3>1, <3>3, <4>1, <4>2 DEF Bounded
    <3>4. CASE g \notin DOMAIN file
      <4>1. pos[r] = 0
        BY <3>1, <3>4 DEF Bounded
      <4>2. g \in DOMAIN file' => Len(file'[g]) \in Nat
        BY <1>10
      <4>. QED BY <2>1, <4>1, <4>2 DEF Bounded
    <3>. QED BY <3>2, <3>3, <3>4
  <2>. QED BY <2>1, <2>2, <2>3 DEF ReaderIInv, PlacesTrue
<1>. QED BY <1>12, <1>13, <1>14 DEF ReaderIInv

LEMMA WriteLineReader ==
  ASSUME ReadableFiles, ReaderIInv, WriteLine, UNCHANGED <<threadVars, readerVars>>
  PROVE  ReaderIInv'
<1>. DEFINE h == Head(unflushed)
            f == FileName(h.msg)
            y == file[f] \o <<h>>
<1>1. /\ unflushed \in Seq(Lines) /\ unflushed # <<>> /\ h \in Lines
      /\ h = unflushed[1] /\ 1 \in 1 .. Len(unflushed)
  BY DEF ReaderIInv, FilesTrue, WriteLine
<1>2. h.msg \in ByLine /\ f \in DOMAIN file /\ file[f] \in Seq(Lines)
  BY <1>1 DEF ReaderIInv, FilesTrue
<1>3. y \in Seq(Lines)
  <2>1. <<h>> \in Seq(Lines)
    BY <1>1
  <2>. QED BY <1>2, <2>1, Concatenated
<1>4. file' = With(f, y) /\ unflushed' = Tail(unflushed) /\ outputs' = outputs /\ written' = written
  BY DEF WriteLine
<1>5. \A r \in InStep : FileOf[r] # f
  <2>1. h.msg \in Msgs
    BY <1>2, LogFileAssumption
  <2>. QED BY <1>2, <2>1 DEF InStep
<1>. HIDE DEF y, f, h
<1>6. /\ DOMAIN file' = DOMAIN file /\ file'[f] = y
      /\ \A g \in DOMAIN file : g # f => file'[g] = file[g]
  BY <1>2, <1>4 DEF With
<1>7. /\ unflushed' \in Seq(Lines) /\ Len(unflushed') = Len(unflushed) - 1
      /\ \A i \in 1 .. Len(unflushed') : unflushed'[i] = unflushed[i + 1] /\ i + 1 \in 1 .. Len(unflushed)
  BY <1>1, <1>4
<1>8. FilesTrue'
  <2>1. \A g \in DOMAIN file' : file'[g] \in Seq(Lines)
    BY <1>3, <1>6 DEF ReaderIInv, FilesTrue
  <2>2. \A i \in 1 .. Len(unflushed') :
          unflushed'[i].msg \in ByLine /\ FileName(unflushed'[i].msg) \in DOMAIN file'
    BY <1>6, <1>7 DEF ReaderIInv, FilesTrue
  <2>3. \A r \in InStep :
          /\ \A i \in 1 .. Len(written'[FileOf[r]]) : written'[FileOf[r]][i].marks = {}
          /\ IF FileOf[r] \in DOMAIN file' THEN file'[FileOf[r]] = LinesOf(written'[FileOf[r]])
                                           ELSE written'[FileOf[r]] = <<>>
    BY <1>4, <1>5, <1>6 DEF ReaderIInv, FilesTrue
  <2>. QED BY <1>4, <1>6, <1>7, <2>1, <2>2, <2>3 DEF ReaderIInv, FilesTrue
<1>9. ThreadsTrue'
  BY DEF ReaderIInv, ThreadsTrue, ThreadsTypeOK, threadVars
<1>10. PlacesTrue'
  <2>1. Len(y) = Len(file[f]) + 1 /\ Len(file[f]) \in Nat
    BY <1>1, <1>2 DEF y
  <2>2. ASSUME NEW r \in Configured PROVE Bounded(FileOf[r], pos[r])'
    <3>1. Bounded(FileOf[r], pos[r]) /\ pos[r] \in Nat /\ pos' = pos
      BY DEF ReaderIInv, PlacesTrue, readerVars
    <3>2. CASE FileOf[r] = f
      BY <1>2, <1>6, <2>1, <3>1, <3>2 DEF Bounded
    <3>3. CASE FileOf[r] # f
      BY <1>6, <3>1, <3>3 DEF Bounded
    <3>. QED BY <3>2, <3>3
  <2>. QED BY <1>4, <2>2 DEF ReaderIInv, PlacesTrue, readerVars
<1>. QED BY <1>8, <1>9, <1>10 DEF ReaderIInv

LEMMA ManagerReader ==
  ASSUME ReaderIInv, ManagerNext, UNCHANGED <<logVars, readerVars>>
  PROVE  ReaderIInv'
<1>1. FilesTrue'
  BY DEF ReaderIInv, FilesTrue, logVars
<1>2. PlacesTrue'
  BY DEF ReaderIInv, PlacesTrue, Bounded, logVars, readerVars
<1>3. ThreadsTrue'
  <2>. USE DEF ReaderIInv, ThreadsTrue, ThreadsTypeOK
  <2>1. CASE Start
    BY <2>1 DEF Start
  <2>2. CASE Stop
    BY <2>2 DEF Stop
  <2>3. CASE Stopped
    BY <2>3 DEF Stopped
  <2>4. CASE Destroy
    BY <2>4 DEF Destroy, ReaderIInv
  <2>5. CASE Deliver
    BY <2>5 DEF Deliver
  <2>. QED BY <2>1, <2>2, <2>3, <2>4, <2>5 DEF ManagerNext
<1>. QED BY <1>1, <1>2, <1>3 DEF ReaderIInv

\* What a receiver whose thread runs knows of its file.
LEMMA InFile ==
  ASSUME ReadableFiles, ReaderIInv, NEW r \in InStep, FileOf[r] \in DOMAIN file
  PROVE  /\ written[FileOf[r]] \in Seq(Msgs) /\ file[FileOf[r]] = LinesOf(written[FileOf[r]])
         /\ emitted[r] \in Seq(Entries) /\ InPlace(written[FileOf[r]], emitted[r], pos[r])
         /\ Len(emitted[r]) \in 0 .. Len(written[FileOf[r]]) /\ counter[r] = Len(emitted[r])
         /\ \A i \in 1 .. Len(written[FileOf[r]]) : written[FileOf[r]][i].marks = {}
<1>1. r \in Configured /\ FileOf[r] \in FileNames
  BY InStepIsConfigured
<1>2. /\ written[FileOf[r]] \in Seq(Msgs) /\ file[FileOf[r]] = LinesOf(written[FileOf[r]])
      /\ emitted[r] \in Seq(Entries) /\ InPlace(written[FileOf[r]], emitted[r], pos[r])
      /\ counter[r] = Len(emitted[r])
      /\ \A i \in 1 .. Len(written[FileOf[r]]) : written[FileOf[r]][i].marks = {}
  BY <1>1 DEF ReaderIInv, FilesTrue, PlacesTrue
<1>. QED BY <1>1, <1>2 DEF InPlace

\* A pass that finds a message finds the next one.
LEMMA FoundIsNext ==
  ASSUME ReadableFiles, ReaderIInv, NEW r \in InStep, PassFound(r)
  PROVE  LET w == written[FileOf[r]]
             n == Len(emitted[r])
         IN  /\ n \in 0 .. Len(w) - 1 /\ w[n + 1] \in Msgs
             /\ emitted' = [emitted EXCEPT ![r] = Append(@, EntryOf(w[n + 1]))]
             /\ counter' = [counter EXCEPT ![r] = @ + 1]
             /\ pos' = [pos EXCEPT ![r] = Offset(w, n + 1)]
<1>. DEFINE w == written[FileOf[r]]
            n == Len(emitted[r])
            s == file[FileOf[r]]
            h == NextMark(s, pos[r])
<1>1. /\ w \in Seq(Msgs) /\ s = LinesOf(w) /\ n \in 0 .. Len(w) /\ pos[r] = Offset(w, n)
      /\ \A i \in 1 .. Len(w) : w[i].marks = {}
  BY InFile DEF PassFound, InPlace
<1>2. h # 0
  BY DEF PassFound
<1>3. n # Len(w)
  <2>. SUFFICES ASSUME n = Len(w) PROVE h = 0
    BY <1>2
  <2>1. pos[r] = Len(s) /\ s \in Seq(Lines) /\ Len(s) \in Nat
    BY <1>1, OffsetEnds, LinesOfType DEF ReadableFiles
  <2>. QED BY <2>1, NoMark
<1>4. n \in 0 .. Len(w) - 1 /\ w[n + 1] \in Msgs /\ w[n + 1].marks = {}
  <2>1. n \in 0 .. Len(w) - 1 /\ n + 1 \in 1 .. Len(w)
    BY <1>1, <1>3
  <2>. QED BY <1>1, <2>1
<1>. HIDE DEF w, n, s
<1>5. /\ h = pos[r] + 1 /\ ReadNext(s, pos[r] + 1) = EntryOf(w[n + 1])
      /\ EndOf(s, pos[r] + 1) = Offset(w, n + 1)
  BY <1>1, <1>4, PassReads DEF ReadableFiles
<1>6. /\ emitted' = [emitted EXCEPT ![r] = Append(@, ReadNext(s, h))]
      /\ counter' = [counter EXCEPT ![r] = @ + 1]
      /\ pos' = [pos EXCEPT ![r] = EndOf(s, h)]
  BY DEF PassFound, s
<1>. HIDE DEF h
<1>7. /\ emitted' = [emitted EXCEPT ![r] = Append(@, EntryOf(w[n + 1]))]
      /\ pos' = [pos EXCEPT ![r] = Offset(w, n + 1)]
  BY <1>5, <1>6
<1>. QED BY <1>4, <1>6, <1>7 DEF w, n

\* The next line with a mark is one of those that follow.
LEMMA MarkIs ==
  ASSUME NEW lines \in Seq(Lines), NEW n \in Nat, NextMark(lines, n) # 0
  PROVE  NextMark(lines, n) \in 1 .. Len(lines) /\ NextMark(lines, n) > n
<1>. DEFINE marked == {i \in DOMAIN lines : i > n /\ lines[i].mark}
            c == CHOOSE i \in marked : \A j \in marked : i <= j
<1>1. marked # {} /\ NextMark(lines, n) = c
  BY DEF NextMark
<1>2. marked \subseteq Nat /\ \A i \in marked : i \in 1 .. Len(lines) /\ i > n
  OBVIOUS
<1>. HIDE DEF marked
<1>3. PICK m \in marked : \A k \in marked : m <= k
  BY <1>1, <1>2, LeastNatural
<1>4. c \in marked
  BY <1>3
<1>. QED BY <1>1, <1>2, <1>4

\* Wherever a receiver is in its file, a pass takes it on to some line of it.
LEMMA PassStays ==
  ASSUME NEW lines \in Seq(Lines), NEW n \in Nat, NextMark(lines, n) # 0
  PROVE  /\ ReadNext(lines, NextMark(lines, n)) \in Entries
         /\ EndOf(lines, NextMark(lines, n)) \in 0 .. Len(lines)
<1>. DEFINE h == NextMark(lines, n)
            e == NextMark(lines, h)
            k == IF e = 0 THEN Len(lines) ELSE e - 1
<1>0. Len(lines) \in Nat
  OBVIOUS
<1>1. h \in 1 .. Len(lines)
  BY MarkIs
<1>2. e # 0 => e \in 1 .. Len(lines) /\ e > h
  BY <1>0, <1>1, MarkIs
<1>3. EndOf(lines, h) = (IF e = 0 THEN Len(lines) ELSE e) /\ TextOf(lines, h) = SubSeq(lines, h + 1, k)
  BY DEF EndOf, TextOf
<1>. HIDE DEF h, e
<1>4. k \in Nat /\ h + 1 <= k + 1 /\ k <= Len(lines) /\ h + 1 \in 1 .. Len(lines) + 1
  BY <1>0, <1>1, <1>2
<1>5. SubSeq(lines, h + 1, k) \in Seq(Lines)
  <2>. HIDE DEF k
  <2>. QED BY <1>4, Part
<1>6. lines[h] \in Lines
  BY <1>1
<1>7. lines[h].msg \in Msgs /\ lines[h].kind \in LineKinds /\ lines[h].msg.sev \in Severities
      /\ "SERROR" \in Severities
  BY <1>6, LogReaderAssumption DEF Lines, Severities
<1>8. ReadNext(lines, h) \in Entries
  <2>1. TextOf(lines, h) \in Seq(Lines)
    BY <1>3, <1>5
  <2>. QED BY <1>7, <2>1 DEF ReadNext, Entries
<1>9. EndOf(lines, h) \in 0 .. Len(lines)
  BY <1>0, <1>2, <1>3
<1>. QED BY <1>8, <1>9 DEF h

LEMMA FoundReader ==
  ASSUME ReadableFiles, ReaderIInv, NEW r \in Configured, PassFound(r)
  PROVE  ReaderIInv'
<1>. DEFINE s == file[FileOf[r]]
            h == NextMark(s, pos[r])
            d == ReadNext(s, h)
            p == EndOf(s, h)
            E == Append(emitted[r], d)
<1>1. FilesTrue'
  BY DEF ReaderIInv, FilesTrue, PassFound, logVars
<1>2. ThreadsTrue'
  BY DEF ReaderIInv, ThreadsTrue, ThreadsTypeOK, PassFound
<1>3. /\ pos \in [Configured -> Nat] /\ counter \in [Configured -> Nat]
      /\ emitted \in [Configured -> Seq(Entries)] /\ FileOf[r] \in DOMAIN file /\ s \in Seq(Lines)
      /\ h # 0 /\ counter[r] = Len(emitted[r])
  BY DEF ReaderIInv, FilesTrue, PlacesTrue, PassFound
<1>4. /\ emitted' = [emitted EXCEPT ![r] = E] /\ pos' = [pos EXCEPT ![r] = p]
      /\ counter' = [counter EXCEPT ![r] = counter[r] + 1]
      /\ file' = file /\ written' = written
  BY DEF PassFound, logVars
<1>5. d \in Entries /\ p \in 0 .. Len(s) /\ Len(s) \in Nat
  <2>. HIDE DEF s
  <2>. QED BY <1>3, PassStays
<1>6. ASSUME r \in InStep PROVE InPlace(written[FileOf[r]], E, p)
  <2>. DEFINE w == written[FileOf[r]]
              n == Len(emitted[r])
              x == EntryOf(w[n + 1])
  <2>1. /\ n \in 0 .. Len(w) - 1 /\ emitted' = [emitted EXCEPT ![r] = Append(@, x)]
        /\ pos' = [pos EXCEPT ![r] = Offset(w, n + 1)]
    BY <1>6, FoundIsNext
  <2>2. E = Append(emitted[r], x) /\ p = Offset(w, n + 1)
    <3>1. emitted'[r] = E /\ pos'[r] = p
      <4>. HIDE DEF E, p
      <4>. QED BY <1>3, <1>4
    <3>2. emitted'[r] = Append(emitted[r], x) /\ pos'[r] = Offset(w, n + 1)
      <4>. HIDE DEF x, w, n
      <4>. QED BY <1>3, <2>1
    <3>. QED BY <3>1, <3>2
  <2>3. InPlace(w, emitted[r], pos[r]) /\ Len(w) \in Nat
    BY <1>6, InStepIsConfigured DEF ReaderIInv, FilesTrue, PlacesTrue
  <2>. HIDE DEF w, x, p
  <2>4. /\ Len(E) = n + 1 /\ E[n + 1] = x /\ \A i \in 1 .. n : E[i] = emitted[r][i]
    <3>. HIDE DEF d
    <3>. QED BY <1>3, <1>5, <2>2
  <2>. HIDE DEF E, n
  <2>5. ASSUME NEW i \in 1 .. n + 1 PROVE E[i] = EntryOf(w[i])
    <3>1. i = n + 1 \/ i \in 1 .. n
      BY <2>1
    <3>. QED BY <2>3, <2>4, <3>1 DEF InPlace, x, n
  <2>. QED BY <2>1, <2>2, <2>3, <2>4, <2>5 DEF InPlace, w
<1>. HIDE DEF d, p, h
<1>7. E \in Seq(Entries) /\ Len(E) = counter[r] + 1
  BY <1>3, <1>5
<1>. HIDE DEF E
<1>8. /\ pos' \in [Configured -> Nat] /\ counter' \in [Configured -> Nat]
      /\ emitted' \in [Configured -> Seq(Entries)]
      /\ emitted'[r] = E /\ pos'[r] = p /\ counter'[r] = Len(E)
      /\ \A q \in Configured : q # r =>
           emitted'[q] = emitted[q] /\ pos'[q] = pos[q] /\ counter'[q] = counter[q]
  <2>1. p \in Nat /\ counter[r] + 1 \in Nat
    BY <1>3, <1>5
  <2>. QED BY <1>3, <1>4, <1>7, <2>1
<1>9. ASSUME NEW q \in Configured PROVE Bounded(FileOf[q], pos[q])' /\ counter'[q] = Len(emitted'[q])
  <2>1. CASE q = r
    <3>1. p <= Len(file[FileOf[r]])
      BY <1>5
    <3>. QED BY <1>3, <1>4, <1>8, <2>1, <3>1 DEF Bounded
  <2>2. CASE q # r
    BY <1>4, <1>8, <2>2 DEF ReaderIInv, PlacesTrue, Bounded
  <2>. QED BY <2>1, <2>2
<1>10. ASSUME NEW q \in InStep PROVE InPlace(written'[FileOf[q]], emitted'[q], pos'[q])
  <2>1. CASE q = r
    BY <1>4, <1>6, <1>8, <2>1
  <2>2. CASE q # r
    BY <1>4, <1>8, <2>2, InStepIsConfigured DEF ReaderIInv, PlacesTrue
  <2>. QED BY <2>1, <2>2
<1>11. PlacesTrue'
  BY <1>8, <1>9, <1>10 DEF PlacesTrue
<1>. QED BY <1>1, <1>2, <1>11 DEF ReaderIInv

\* A pass that finds nothing has nothing more to read.
LEMMA NothingReader ==
  ASSUME ReadableFiles, ReaderIInv, NEW r \in Configured, PassNothing(r)
  PROVE  ReaderIInv'
<1>. DEFINE s == file[FileOf[r]]
<1>1. /\ pos \in [Configured -> Nat] /\ pos[r] <= Len(s) /\ s \in Seq(Lines) /\ FileOf[r] \in DOMAIN file
  BY DEF ReaderIInv, FilesTrue, PlacesTrue, PassNothing, Bounded
<1>2. NextMark(s, pos[r]) = 0
  BY DEF PassNothing
<1>3. pos' = [pos EXCEPT ![r] = Len(s)]
  <2>1. pos' = [pos EXCEPT ![r] = IF @ > Len(s) THEN @ ELSE Len(s)]
    BY DEF PassNothing
  <2>2. ~(pos[r] > Len(s)) /\ Len(s) \in Nat
    BY <1>1
  <2>. HIDE DEF s
  <2>. QED BY <2>1, <2>2
<1>4. UNCHANGED <<logVars, threadVars, counter, emitted>>
  BY DEF PassNothing
<1>5. ASSUME r \in InStep PROVE Len(s) = pos[r]
  <2>. DEFINE w == written[FileOf[r]]
              n == Len(emitted[r])
  <2>1. /\ w \in Seq(Msgs) /\ s = LinesOf(w) /\ n \in 0 .. Len(w) /\ pos[r] = Offset(w, n)
        /\ \A i \in 1 .. Len(w) : w[i].marks = {}
    BY <1>1, <1>5, InFile DEF InPlace
  <2>2. n = Len(w)
    <3>. SUFFICES ASSUME n # Len(w) PROVE FALSE
      OBVIOUS
    <3>1. n \in 0 .. Len(w) - 1 /\ n + 1 \in 1 .. Len(w) /\ pos[r] \in Nat
      BY <1>1, <2>1
    <3>. HIDE DEF w, n, s
    <3>2. NextMark(s, pos[r]) = pos[r] + 1
      BY <2>1, <3>1, PassReads DEF ReadableFiles
    <3>. QED BY <1>2, <3>1, <3>2
  <2>. QED BY <2>1, <2>2, OffsetEnds DEF ReadableFiles
<1>. HIDE DEF s
<1>6. /\ pos' \in [Configured -> Nat] /\ pos'[r] = Len(s)
      /\ \A q \in Configured : q # r => pos'[q] = pos[q]
  <2>1. Len(s) \in Nat
    BY <1>1
  <2>. QED BY <1>1, <1>3, <2>1
<1>7. /\ file' = file /\ written' = written /\ counter' = counter /\ emitted' = emitted
  BY <1>4 DEF logVars
<1>8. ASSUME NEW q \in Configured PROVE Bounded(FileOf[q], pos[q])'
  <2>1. CASE q = r
    <3>1. Len(file[FileOf[r]]) \in Nat /\ pos'[q] = Len(file[FileOf[r]])
      BY <1>1, <1>6, <2>1 DEF s
    <3>. QED BY <1>1, <1>7, <2>1, <3>1 DEF Bounded
  <2>2. CASE q # r
    BY <1>6, <1>7, <2>2 DEF ReaderIInv, PlacesTrue, Bounded
  <2>. QED BY <2>1, <2>2
<1>9. ASSUME NEW q \in InStep PROVE InPlace(written'[FileOf[q]], emitted'[q], pos'[q])
  <2>1. pos'[q] = pos[q]
    BY <1>5, <1>6, InStepIsConfigured
  <2>. QED BY <1>7, <2>1 DEF ReaderIInv, PlacesTrue
<1>10. PlacesTrue'
  BY <1>6, <1>7, <1>8, <1>9 DEF ReaderIInv, PlacesTrue
<1>11. FilesTrue' /\ ThreadsTrue'
  BY <1>4 DEF logVars, threadVars, ReaderIInv, FilesTrue, ThreadsTrue, ThreadsTypeOK
<1>. QED BY <1>10, <1>11 DEF ReaderIInv

LEMMA LeaveReader ==
  ASSUME ReaderIInv, NEW r \in Configured, Leave(r)
  PROVE  ReaderIInv'
BY DEF Leave, Return, logVars, readerVars, ReaderIInv, FilesTrue, ThreadsTrue, ThreadsTypeOK,
       PlacesTrue, Bounded

\* If files are appended to and messages have a last line, each receiver of a file with no
\* mark in the text of its messages, none of them written line by line, has read the first
\* messages of the file and stands where the next begins; a receiver of another file is
\* somewhere in it (LogReader_receiver.cc:26-151).
THEOREM ReaderInductive == ASSUME ReadableFiles PROVE Spec => []ReaderIInv
<1>1. Init => ReaderIInv
  BY InitReader
<1>2. ReaderIInv /\ [Next]_vars => ReaderIInv'
  <2>. SUFFICES ASSUME ReaderIInv, [Next]_vars PROVE ReaderIInv'
    OBVIOUS
  <2>1. CASE \E m \in Msgs : Route(m) /\ UNCHANGED <<threadVars, readerVars>>
    BY <2>1, RouteReader
  <2>2. CASE WriteLine /\ UNCHANGED <<threadVars, readerVars>>
    BY <2>2, WriteLineReader
  <2>3. CASE ManagerNext /\ UNCHANGED <<logVars, readerVars>>
    BY <2>3, ManagerReader
  <2>4. CASE UNCHANGED vars
    BY <2>4 DEF vars, logVars, threadVars, readerVars, ReaderIInv, FilesTrue, ThreadsTrue,
                ThreadsTypeOK, PlacesTrue, Bounded
  <2>5. ASSUME NEW r \in Configured, Loop(r) PROVE ReaderIInv'
    BY <2>4, <2>5, FoundReader, NothingReader, LeaveReader DEF Loop, PassMissing
  <2>. QED BY <2>1, <2>2, <2>3, <2>4, <2>5 DEF Next
<1>. QED BY <1>1, <1>2, PTL DEF Spec

\* From such a file every message comes out with its severity and every line of its text,
\* whatever the other files have in them (LogReader_receiver.cc:26-151).
THEOREM ReadIsWhole == ASSUME ReadableFiles PROVE Spec => []ReaderInv
<1>1. ReaderIInv => ReaderInv
  <2>. SUFFICES ASSUME ReaderIInv PROVE TypeOK /\ ReadsWhole
    BY DEF ReaderInv
  <2>1. ASSUME NEW r \in InStep, NEW i \in DOMAIN emitted[r]
        PROVE  WholeEntry(emitted[r][i])
    <3>1. /\ written[FileOf[r]] \in Seq(Msgs) /\ emitted[r] \in Seq(Entries)
          /\ InPlace(written[FileOf[r]], emitted[r], pos[r])
      BY InStepIsConfigured DEF ReaderIInv, FilesTrue, PlacesTrue
    <3>2. i \in 1 .. Len(emitted[r]) /\ i \in 1 .. Len(written[FileOf[r]])
      BY <3>1 DEF InPlace
    <3>3. emitted[r][i] = EntryOf(written[FileOf[r]][i]) /\ written[FileOf[r]][i] \in Msgs
      BY <3>1, <3>2 DEF InPlace
    <3>. QED BY <3>3, EntryIsWhole DEF ReadableFiles
  <2>2. ReadsWhole
    BY <2>1 DEF ReadsWhole, WholeEntry
  <2>3. ASSUME NEW r \in Configured
        PROVE  /\ pos[r] \in 0 .. (IF FileOf[r] \in DOMAIN file THEN Len(file[FileOf[r]]) ELSE 0)
               /\ counter[r] = Len(emitted[r])
               /\ \A i \in DOMAIN emitted[r] : emitted[r][i].sev \in Severities
    <3>1. /\ pos[r] \in Nat /\ Bounded(FileOf[r], pos[r]) /\ emitted[r] \in Seq(Entries)
          /\ counter[r] = Len(emitted[r])
      BY DEF ReaderIInv, PlacesTrue
    <3>2. FileOf[r] \in DOMAIN file => Len(file[FileOf[r]]) \in Nat
      BY DEF ReaderIInv, FilesTrue
    <3>3. \A i \in DOMAIN emitted[r] : emitted[r][i] \in Entries
      BY <3>1
    <3>. QED BY <3>1, <3>2, <3>3 DEF Bounded, Entries
  <2>4. TypeOK
    BY <2>3 DEF TypeOK, ReaderIInv, FilesTrue, ThreadsTrue
  <2>. QED BY <2>2, <2>4
<1>. QED BY <1>1, ReaderInductive, PTL

-----------------------------------------------------------------------------
(* By file: the refinement.                                                 *)

\* What the receivers' files hold, and what each has read of them.
Held == [r \in InStep |-> written[FileOf[r]]]
Read == [r \in InStep |-> MessagesOf(r)]

LEMMA SameLog ==
  ASSUME written' = written, \A r \in InStep : emitted'[r] = emitted[r]
  PROVE  UNCHANGED Log!vars
BY DEF Log!vars, MessagesOf

LEMMA RouteTails ==
  ASSUME ReadableFiles, ReaderIInv, NEW m \in Msgs, Route(m),
         UNCHANGED <<threadVars, readerVars>>
  PROVE  Log!Next
<1>. DEFINE f == FileName(m)
            rs == {r \in InStep : FileOf[r] = f}
<1>1. /\ written \in [FileNames -> Seq(Msgs)] /\ f \in FileNames
      /\ written' = [written EXCEPT ![f] = Append(@, m)]
  BY DEF ReaderIInv, FilesTrue, Route, ReadableFiles, FileNames
<1>2. /\ written'[f] = Append(written[f], m)
      /\ \A g \in FileNames : g # f => written'[g] = written[g]
  BY <1>1
<1>3. \A r \in InStep : FileOf[r] \in FileNames
  BY InStepIsConfigured
<1>4. Held' = [r \in InStep |-> IF r \in rs THEN Append(Held[r], m) ELSE Held[r]]
  <2>1. \A r \in InStep :
          written'[FileOf[r]] = IF r \in rs THEN Append(written[FileOf[r]], m)
                                            ELSE written[FileOf[r]]
    BY <1>2, <1>3
  <2>. QED BY <2>1 DEF Held
<1>5. Read' = Read
  BY DEF Read, MessagesOf, readerVars
<1>6. Log!Write(m, rs)
  BY <1>4, <1>5 DEF Log!Write, Held, Read
<1>. QED BY <1>6 DEF Log!Next

LEMMA FoundTails ==
  ASSUME ReadableFiles, ReaderIInv, NEW r \in InStep, PassFound(r)
  PROVE  Log!Next
<1>. DEFINE w == written[FileOf[r]]
            n == Len(emitted[r])
            e == EntryOf(w[n + 1])
            E == Append(emitted[r], e)
<1>1. /\ n \in 0 .. Len(w) - 1 /\ w[n + 1] \in Msgs
      /\ emitted' = [emitted EXCEPT ![r] = E]
  BY FoundIsNext
<1>2. emitted \in [Configured -> Seq(Entries)] /\ emitted[r] \in Seq(Entries) /\ r \in Configured
  BY InStepIsConfigured DEF ReaderIInv, PlacesTrue
<1>3. e.msg = w[n + 1] /\ e \in Entries
  BY <1>1, EntryIsWhole, EntryType DEF ReadableFiles
<1>4. written' = written
  BY DEF PassFound, logVars
<1>. HIDE DEF w, e
<1>5. /\ E \in Seq(Entries) /\ Len(E) = n + 1 /\ E[n + 1] = e
      /\ \A i \in 1 .. n : E[i] = emitted[r][i]
  BY <1>2, <1>3
<1>6. emitted'[r] = E /\ \A q \in Configured : q # r => emitted'[q] = emitted[q]
  BY <1>1, <1>2
<1>. HIDE DEF E
<1>7. DOMAIN emitted[r] = 1 .. n /\ DOMAIN E = 1 .. n + 1 /\ n \in Nat
  BY <1>2, <1>5
<1>8. Read[r] = [i \in 1 .. n |-> emitted[r][i].msg]
  BY <1>7 DEF Read, MessagesOf
<1>9. Read'[r] = [i \in 1 .. n + 1 |-> E[i].msg]
  BY <1>6, <1>7 DEF Read, MessagesOf
<1>10. Read[r] \in Seq(Msgs) /\ Len(Read[r]) = n
  <2>1. \A i \in 1 .. n : emitted[r][i].msg \in Msgs
    <3>1. \A i \in 1 .. n : emitted[r][i] \in Entries
      BY <1>2
    <3>. QED BY <3>1 DEF Entries
  <2>. HIDE DEF n
  <2>. QED BY <1>7, <1>8, <2>1
<1>. HIDE DEF n
<1>11. Read'[r] = Append(Read[r], w[n + 1])
  <2>. DEFINE x == Append(Read[r], w[n + 1])
              y == Read'[r]
  <2>1. x \in Seq(Msgs) /\ Len(x) = n + 1 /\ x[n + 1] = w[n + 1] /\ \A i \in 1 .. n : x[i] = Read[r][i]
    BY <1>1, <1>10
  <2>. HIDE DEF x
  <2>2. \A i \in 1 .. n + 1 : E[i].msg = x[i]
    <3>. SUFFICES ASSUME NEW i \in 1 .. n + 1 PROVE E[i].msg = x[i]
      OBVIOUS
    <3>1. CASE i = n + 1
      BY <1>3, <1>5, <2>1, <3>1
    <3>2. CASE i # n + 1
      <4>1. i \in 1 .. n
        BY <1>7, <3>2
      <4>. QED BY <1>5, <1>8, <2>1, <4>1
    <3>. QED BY <3>1, <3>2
  <2>3. x = [i \in 1 .. n + 1 |-> x[i]]
    BY <1>7, <2>1
  <2>4. y = x
    BY <1>9, <2>2, <2>3
  <2>. QED BY <2>4 DEF x, y
<1>12. Read' = [Read EXCEPT ![r] = Append(@, w[n + 1])]
  <2>1. \A q \in InStep : q # r => MessagesOf(q)' = MessagesOf(q)
    BY <1>6, InStepIsConfigured DEF MessagesOf
  <2>2. Read = [q \in InStep |-> Read[q]] /\ Read' = [q \in InStep |-> Read'[q]]
    BY DEF Read
  <2>3. \A q \in InStep : q # r => Read'[q] = Read[q]
    BY <2>1 DEF Read
  <2>. QED BY <1>11, <2>2, <2>3
<1>13. Held' = Held /\ Held[r] = w
  BY <1>4 DEF Held, w
<1>14. Log!ReadNext(r)
  <2>1. Len(Read[r]) < Len(Held[r]) /\ Len(Read[r]) + 1 = n + 1
    <3>1. Len(w) \in Nat
      <4>1. w \in Seq(Msgs)
        BY InStepIsConfigured DEF ReaderIInv, FilesTrue, w
      <4>. QED BY <4>1
    <3>. QED BY <1>1, <1>7, <1>10, <1>13, <3>1
  <2>2. Read' = [Read EXCEPT ![r] = Append(@, Held[r][Len(@) + 1])]
    BY <1>10, <1>12, <1>13
  <2>. QED BY <1>13, <2>1, <2>2 DEF Log!ReadNext, Held, Read
<1>. QED BY <1>14 DEF Log!Next

\* From such a file each receiver reads the messages once each and in order, however many
\* write and read, and takes nothing else for a message (LogReader_receiver.cc:26-151).
THEOREM IsTail == ASSUME ReadableFiles PROVE Spec => ReadsEachOnce
<1>1. Init /\ ReaderIInv => Log!Init
  <2>. SUFFICES ASSUME Init, ReaderIInv PROVE Log!Init
    OBVIOUS
  <2>1. Held \in [InStep -> Seq(Msgs)]
    BY InStepIsConfigured DEF Held, ReaderIInv, FilesTrue
  <2>2. \A r \in InStep : MessagesOf(r) = <<>>
    BY InStepIsConfigured DEF Init, MessagesOf
  <2>3. Read = [r \in InStep |-> <<>>]
    BY <2>2 DEF Read
  <2>. QED BY <2>1, <2>3 DEF Log!Init, Held, Read
<1>2. ReaderIInv /\ [Next]_vars => [Log!Next]_(Log!vars)
  <2>. SUFFICES ASSUME ReaderIInv, [Next]_vars PROVE [Log!Next]_(Log!vars)
    OBVIOUS
  <2>1. CASE \E m \in Msgs : Route(m) /\ UNCHANGED <<threadVars, readerVars>>
    BY <2>1, RouteTails
  <2>2. CASE WriteLine /\ UNCHANGED <<threadVars, readerVars>>
    BY <2>2, SameLog DEF WriteLine, readerVars
  <2>3. CASE ManagerNext /\ UNCHANGED <<logVars, readerVars>>
    BY <2>3, SameLog DEF logVars, readerVars
  <2>4. CASE UNCHANGED vars
    BY <2>4, SameLog DEF vars, logVars, readerVars
  <2>5. ASSUME NEW r \in Configured, Loop(r) PROVE [Log!Next]_(Log!vars)
    <3>1. CASE PassFound(r) /\ r \in InStep
      BY <3>1, FoundTails
    <3>3. CASE PassFound(r) /\ r \notin InStep
      <4>1. emitted' = [emitted EXCEPT ![r] = Append(@, ReadNext(file[FileOf[r]],
                                                       NextMark(file[FileOf[r]], pos[r])))]
            /\ written' = written
        BY <3>3 DEF PassFound, logVars
      <4>2. \A q \in InStep : emitted'[q] = emitted[q]
        <5>1. emitted \in [Configured -> Seq(Entries)]
          BY DEF ReaderIInv, PlacesTrue
        <5>. QED BY <3>3, <4>1, <5>1, InStepIsConfigured
      <4>. QED BY <4>1, <4>2, SameLog
    <3>2. CASE PassNothing(r) \/ PassMissing(r) \/ Leave(r)
      BY <3>2, SameLog DEF PassNothing, PassMissing, Leave, vars, logVars, readerVars
    <3>. QED BY <2>5, <3>1, <3>2, <3>3 DEF Loop
  <2>. QED BY <2>1, <2>2, <2>3, <2>4, <2>5 DEF Next
<1>3. Init => ReaderIInv
  BY InitReader
<1>. QED BY <1>1, <1>2, <1>3, ReaderInductive, PTL DEF Spec, ReadsEachOnce, Log!Spec
=============================================================================
