------------------------------ MODULE UdpProofs ------------------------------
(***************************************************************************)
(* Theorems about UdpLink: the destination turns itself off only for as    *)
(* many errors as the threshold says, and both ends of a link with one     *)
(* configuration are on one port and in one group.                         *)
(***************************************************************************)
EXTENDS UdpLink, DataProofs, FiniteSetTheorems

-----------------------------------------------------------------------------
(* The history that the counters stand for.                                *)

Outcome == {"sent", "failed", "reported", "off"}

\* The messages that ended Calm or more successes in a row.
CalmEnds ==
  {i \in DOMAIN outcomes :
     i >= Calm /\ \A j \in i - Calm + 1 .. i : outcomes[j] = "sent"}

LEMMA RecentByCalm == Recent = {i \in DOMAIN outcomes : \A j \in CalmEnds : j < i}
BY DEF Recent, CalmEnds

Failures == {j \in Recent : Failed(j)}

\* The last messages were sent, as many as the counter says, and not the one before.
Streak ==
  LET n == Len(outcomes)
  IN  /\ successes <= n
      /\ \A j \in n - successes + 1 .. n : outcomes[j] = "sent"
      /\ successes < n => outcomes[n - successes] # "sent"

CountersInv ==
  /\ outcomes \in Seq(Outcome) /\ errors \in Nat /\ successes \in Nat
  /\ errors = Cardinality(Failures)
  /\ ErrorMax > 0 => errors <= ErrorMax
  /\ IsOn => Streak
  /\ (\E i \in DOMAIN outcomes : outcomes[i] = "off") => ~IsOn

\* A message more that does not end a calm belongs to the recent ones.
LEMMA NotCalm ==
  ASSUME outcomes \in Seq(Outcome), NEW o \in Outcome, outcomes' = Append(outcomes, o),
         LET n == Len(outcomes) + 1
         IN  o = "sent" /\ n >= Calm => \E j \in n - Calm + 1 .. n - 1 : outcomes[j] # "sent"
  PROVE  Failures' = Failures \cup (IF o \in {"failed", "reported"}
                                    THEN {Len(outcomes) + 1} ELSE {})
<1>. DEFINE n == Len(outcomes) + 1
<1>1. Calm \in Nat \ {0}
  BY UdpDestinationAssumption
<1>2. /\ DOMAIN outcomes = 1 .. n - 1 /\ DOMAIN outcomes' = 1 .. n
      /\ outcomes'[n] = o /\ \A i \in 1 .. n - 1 : outcomes'[i] = outcomes[i]
      /\ n \in Nat \ {0}
  OBVIOUS
<1>0. /\ n = Len(outcomes) + 1
      /\ o = "sent" /\ n >= Calm => \E j \in n - Calm + 1 .. n - 1 : outcomes[j] # "sent"
  OBVIOUS
<1> HIDE DEF n
<1>3. n \notin CalmEnds'
  <2>. SUFFICES ASSUME n \in CalmEnds' PROVE FALSE
    OBVIOUS
  <2>1. n >= Calm /\ \A j \in n - Calm + 1 .. n : outcomes'[j] = "sent"
    BY DEF CalmEnds
  <2>2. o = "sent"
    BY <1>1, <1>2, <2>1
  <2>3. PICK j \in n - Calm + 1 .. n - 1 : outcomes[j] # "sent"
    BY <1>0, <2>1, <2>2
  <2>4. j \in 1 .. n - 1 /\ j \in n - Calm + 1 .. n
    BY <1>1, <1>2, <2>1
  <2>. QED BY <1>2, <2>1, <2>3, <2>4
<1>4. \A i \in 1 .. n - 1 : i \in CalmEnds' <=> i \in CalmEnds
  <2>. SUFFICES ASSUME NEW i \in 1 .. n - 1 PROVE i \in CalmEnds' <=> i \in CalmEnds
    OBVIOUS
  <2>1. i >= Calm => \A j \in i - Calm + 1 .. i : j \in 1 .. n - 1
    BY <1>1, <1>2
  <2>. QED BY <1>2, <2>1 DEF CalmEnds
<1>5. CalmEnds' = CalmEnds
  <2>1. CalmEnds' \subseteq 1 .. n /\ CalmEnds \subseteq 1 .. n - 1
    BY <1>2 DEF CalmEnds
  <2>2. \A i \in 1 .. n : i = n \/ i \in 1 .. n - 1
    BY <1>2
  <2>. QED BY <1>3, <1>4, <2>1, <2>2
<1>6. Recent' = {i \in DOMAIN outcomes' : \A j \in CalmEnds' : j < i}
  BY DEF Recent, CalmEnds
<1>7. Recent' = Recent \cup {n}
  <2>1. \A j \in CalmEnds : j \in 1 .. n - 1
    BY <1>2 DEF CalmEnds
  <2>. QED BY <1>2, <1>5, <1>6, <2>1, RecentByCalm
<1>8. Recent \subseteq 1 .. n - 1
  BY <1>2, RecentByCalm
<1>9. Failures' = {j \in Recent' : outcomes'[j] \in {"failed", "reported"}}
  BY DEF Failures, Failed
<1>10. Failures = {j \in Recent : outcomes[j] \in {"failed", "reported"}}
  BY DEF Failures, Failed
<1>11. \A j \in Recent : outcomes'[j] = outcomes[j]
  BY <1>2, <1>8
<1>12. CASE o \in {"failed", "reported"}
  <2>1. Failures' = Failures \cup {n}
    BY <1>2, <1>7, <1>9, <1>10, <1>11, <1>12
  <2>. QED BY <1>0, <1>12, <2>1
<1>13. CASE o \notin {"failed", "reported"}
  <2>1. Failures' = Failures
    BY <1>2, <1>7, <1>9, <1>10, <1>11, <1>13
  <2>. QED BY <1>13, <2>1
<1>. QED BY <1>12, <1>13

\* After one that does there is nothing recent.
LEMMA CalmForgets ==
  ASSUME outcomes \in Seq(Outcome), outcomes' = Append(outcomes, "sent"),
         Len(outcomes) + 1 >= Calm,
         \A j \in Len(outcomes) + 2 - Calm .. Len(outcomes) : outcomes[j] = "sent"
  PROVE  Failures' = {}
<1>. DEFINE n == Len(outcomes) + 1
<1>1. Calm \in Nat \ {0}
  BY UdpDestinationAssumption
<1>2. /\ DOMAIN outcomes' = 1 .. n /\ outcomes'[n] = "sent" /\ n \in Nat \ {0}
      /\ \A i \in 1 .. n - 1 : outcomes'[i] = outcomes[i]
  OBVIOUS
<1>n. n - 1 = Len(outcomes) /\ n >= Calm
  BY <1>1
<1> HIDE DEF n
<1>3. \A j \in n - Calm + 1 .. n : outcomes'[j] = "sent"
  <2>. SUFFICES ASSUME NEW j \in n - Calm + 1 .. n PROVE outcomes'[j] = "sent"
    OBVIOUS
  <2>1. CASE j = n
    BY <1>2, <2>1
  <2>2. CASE j # n
    BY <1>1, <1>2, <1>n, <2>2 DEF n
  <2>. QED BY <2>1, <2>2
<1>4. n \in CalmEnds'
  BY <1>1, <1>2, <1>n, <1>3 DEF CalmEnds
<1>5. Recent' = {i \in DOMAIN outcomes' : \A j \in CalmEnds' : j < i}
  BY DEF Recent, CalmEnds
<1>6. Recent' = {}
  BY <1>2, <1>4, <1>5
<1>. QED BY <1>6 DEF Failures

-----------------------------------------------------------------------------
(* The counters stand for the history.                                     *)

LEMMA FailuresFinite ==
  ASSUME outcomes \in Seq(Outcome)
  PROVE  /\ Failures \subseteq 1 .. Len(outcomes)
         /\ IsFiniteSet(Failures) /\ Cardinality(Failures) \in Nat
<1>1. Failures \subseteq 1 .. Len(outcomes)
  BY DEF Failures, Recent
<1>2. IsFiniteSet(1 .. Len(outcomes))
  BY FS_Interval
<1>. QED BY <1>1, <1>2, FS_Subset, FS_CardinalityType

LEMMA FailCounts == CountersInv /\ IsOn /\ SendFails => CountersInv'
<1>. SUFFICES ASSUME CountersInv, IsOn, SendFails PROVE CountersInv'
  OBVIOUS
<1>. ErrorMax \in Nat
  BY UdpDestinationAssumption
<1>1. PICK o \in {"failed", "reported"} : outcomes' = Append(outcomes, o)
  BY DEF SendFails
<1>2. outcomes \in Seq(Outcome) /\ o \in Outcome /\ o # "sent" /\ o # "off"
  BY DEF CountersInv, Outcome
<1>3. /\ outcomes' \in Seq(Outcome) /\ Len(outcomes') = Len(outcomes) + 1
      /\ outcomes'[Len(outcomes) + 1] = o
      /\ \A i \in DOMAIN outcomes : outcomes'[i] = outcomes[i]
      /\ \A i \in DOMAIN outcomes' : i \in DOMAIN outcomes \/ i = Len(outcomes) + 1
  BY <1>1, <1>2
<1>4. Failures' = Failures \cup {Len(outcomes) + 1}
  BY <1>1, <1>2, NotCalm
<1>5. Cardinality(Failures') = Cardinality(Failures) + 1
  <2>1. Len(outcomes) + 1 \notin Failures
    BY <1>2, FailuresFinite
  <2>. QED BY <1>2, <1>4, <2>1, FailuresFinite, FS_AddElement
<1>6. errors' = Cardinality(Failures')
  BY <1>5 DEF CountersInv, SendFails
<1>7. errors' \in Nat /\ successes' = 0 /\ (ErrorMax > 0 => errors' <= ErrorMax)
  BY DEF CountersInv, SendFails, IsOn
<1>8. Streak'
  BY <1>2, <1>3, <1>7 DEF Streak
<1>9. ~ \E i \in DOMAIN outcomes' : outcomes'[i] = "off"
  BY <1>2, <1>3 DEF CountersInv
<1>. QED BY <1>3, <1>6, <1>7, <1>8, <1>9 DEF CountersInv

\* What a message that was sent does to the failures.
LEMMA SuccessFailures ==
  ASSUME CountersInv, IsOn, SendSucceeds
  PROVE  /\ successes' >= Calm => Failures' = {}
         /\ successes' < Calm => Failures' = Failures
<1>. Calm \in Nat \ {0}
  BY UdpDestinationAssumption
<1>1. outcomes' = Append(outcomes, "sent") /\ successes' = successes + 1
  BY DEF SendSucceeds
<1>2. outcomes \in Seq(Outcome) /\ "sent" \in Outcome /\ Streak /\ successes \in Nat
  BY DEF CountersInv, Outcome
<1>3. CASE successes' >= Calm
  <2>1. /\ Len(outcomes) + 1 >= Calm
        /\ \A j \in Len(outcomes) + 2 - Calm .. Len(outcomes) : outcomes[j] = "sent"
    BY <1>1, <1>2, <1>3 DEF Streak
  <2>2. Failures' = {}
    BY <1>1, <1>2, <2>1, CalmForgets
  <2>. QED BY <1>1, <1>2, <1>3, <2>2
<1>4. CASE successes' < Calm
  <2>1. LET n == Len(outcomes) + 1
        IN  "sent" = "sent" /\ n >= Calm
              => \E j \in n - Calm + 1 .. n - 1 : outcomes[j] # "sent"
    <3>. DEFINE n == Len(outcomes) + 1
    <3>. SUFFICES ASSUME n >= Calm
                  PROVE  \E j \in n - Calm + 1 .. n - 1 : outcomes[j] # "sent"
      OBVIOUS
    <3>1. successes < Len(outcomes)
          /\ Len(outcomes) - successes \in n - Calm + 1 .. n - 1
      BY <1>1, <1>2, <1>4
    <3>2. outcomes[Len(outcomes) - successes] # "sent"
      BY <1>2, <3>1 DEF Streak
    <3>. QED BY <3>1, <3>2
  <2>2. Failures' = Failures \cup (IF "sent" \in {"failed", "reported"}
                                   THEN {Len(outcomes) + 1} ELSE {})
    BY <1>1, <1>2, <2>1, NotCalm
  <2>. QED BY <1>1, <1>2, <1>4, <2>2
<1>. QED BY <1>1, <1>2, <1>3, <1>4

LEMMA SuccessCounts == CountersInv /\ IsOn /\ SendSucceeds => CountersInv'
<1>. SUFFICES ASSUME CountersInv, IsOn, SendSucceeds PROVE CountersInv'
  OBVIOUS
<1>. ErrorMax \in Nat /\ Calm \in Nat \ {0}
  BY UdpDestinationAssumption
<1>1. outcomes' = Append(outcomes, "sent") /\ successes' = successes + 1
  BY DEF SendSucceeds
<1>2. outcomes \in Seq(Outcome) /\ "sent" \in Outcome /\ Streak /\ successes \in Nat
  BY DEF CountersInv, Outcome
<1>3. /\ outcomes' \in Seq(Outcome) /\ Len(outcomes') = Len(outcomes) + 1
      /\ outcomes'[Len(outcomes) + 1] = "sent"
      /\ \A i \in DOMAIN outcomes : outcomes'[i] = outcomes[i]
      /\ \A i \in DOMAIN outcomes' : i \in DOMAIN outcomes \/ i = Len(outcomes) + 1
  BY <1>1, <1>2
<1>4. Streak'
  <2>1. /\ successes <= Len(outcomes)
        /\ \A j \in Len(outcomes) - successes + 1 .. Len(outcomes) : outcomes[j] = "sent"
        /\ successes < Len(outcomes) => outcomes[Len(outcomes) - successes] # "sent"
    BY <1>2 DEF Streak
  <2>2. \A j \in Len(outcomes') - successes' + 1 .. Len(outcomes') : outcomes'[j] = "sent"
    <3>1. \A j \in Len(outcomes') - successes' + 1 .. Len(outcomes') :
            \/ j = Len(outcomes) + 1
            \/ /\ j \in Len(outcomes) - successes + 1 .. Len(outcomes)
               /\ j \in DOMAIN outcomes
      BY <1>1, <1>2, <1>3, <2>1
    <3>. QED BY <1>3, <2>1, <3>1
  <2>3. successes' < Len(outcomes') => outcomes'[Len(outcomes') - successes'] # "sent"
    <3>. SUFFICES ASSUME successes' < Len(outcomes')
                  PROVE  outcomes'[Len(outcomes') - successes'] # "sent"
      OBVIOUS
    <3>1. /\ Len(outcomes') - successes' = Len(outcomes) - successes
          /\ Len(outcomes) - successes \in DOMAIN outcomes
          /\ successes < Len(outcomes)
      BY <1>1, <1>2, <1>3, <2>1
    <3>. QED BY <1>3, <2>1, <3>1
  <2>4. successes' <= Len(outcomes')
    BY <1>1, <1>2, <1>3, <2>1
  <2>. QED BY <2>2, <2>3, <2>4 DEF Streak
<1>5. ~ \E i \in DOMAIN outcomes' : outcomes'[i] = "off"
  BY <1>2, <1>3 DEF CountersInv
<1>6. /\ errors' \in Nat /\ errors' = Cardinality(Failures')
      /\ ErrorMax > 0 => errors' <= ErrorMax
  <2>1. CASE successes' >= Calm
    <3>1. errors' = 0
      BY <1>1, <1>2, <2>1 DEF SendSucceeds
    <3>2. Failures' = {}
      BY <2>1, SuccessFailures
    <3>. QED BY <3>1, <3>2, FS_EmptySet
  <2>2. CASE successes' < Calm
    <3>1. errors' = errors
      BY <1>1, <1>2, <2>2 DEF SendSucceeds
    <3>2. Failures' = Failures
      BY <2>2, SuccessFailures
    <3>. QED BY <3>1, <3>2 DEF CountersInv
  <2>. QED BY <1>1, <1>2, <2>1, <2>2
<1>. QED BY <1>1, <1>2, <1>3, <1>4, <1>5, <1>6 DEF CountersInv

LEMMA OffCounts ==
  ASSUME CountersInv, ~IsOn, outcomes' = Append(outcomes, "off"),
         UNCHANGED <<errors, successes>>
  PROVE  CountersInv'
<1>1. outcomes \in Seq(Outcome) /\ "off" \in Outcome
  BY DEF CountersInv, Outcome
<1>2. Failures' = Failures
  <2>1. Failures' = Failures \cup (IF "off" \in {"failed", "reported"}
                                   THEN {Len(outcomes) + 1} ELSE {})
    BY <1>1, NotCalm
  <2>. QED BY <2>1
<1>3. outcomes' \in Seq(Outcome)
  BY <1>1
<1>4. ~IsOn'
  BY DEF IsOn
<1>. QED BY <1>2, <1>3, <1>4 DEF CountersInv

LEMMA CountersStutter == CountersInv /\ UNCHANGED destVars => CountersInv'
BY DEF CountersInv, destVars, Failures, Recent, Failed, IsOn, Streak

LEMMA RouteCounts ==
  ASSUME NEW m, NEW out, CountersInv, Route(m, out) PROVE CountersInv'
<1>1. CASE UNCHANGED <<errors, successes, nextReport, outcomes>>
  BY <1>1 DEF CountersInv, Failures, Recent, Failed, IsOn, Streak
<1>2. CASE IsOn /\ SendFails
  BY <1>2, FailCounts
<1>3. CASE IsOn /\ SendSucceeds
  BY <1>3, SuccessCounts
<1>4. CASE /\ ~IsOn /\ outcomes' = Append(outcomes, "off")
           /\ UNCHANGED <<errors, successes, nextReport>>
  BY <1>4, OffCounts
<1>. QED BY <1>1, <1>2, <1>3, <1>4 DEF Route

LEMMA CountersStep == CountersInv /\ [Next]_vars => CountersInv'
<1>. SUFFICES ASSUME CountersInv, [Next]_vars PROVE CountersInv'
  OBVIOUS
<1>1. CASE \E m \in Msgs : Log(m)
  BY <1>1, RouteCounts DEF Log
<1>2. CASE UNCHANGED destVars
  BY <1>2, CountersStutter
<1>3. CASE (\E d \in net : Lose(d)) \/ \E d \in net \cup Foreign, r \in Configured : Arrive(d, r)
  BY <1>2, <1>3 DEF Lose, Arrive
<1>4. CASE Manage \/ \E r \in Configured : Receive(r)
  BY <1>2, <1>4 DEF Manage, Receive
<1>5. CASE UNCHANGED vars
  BY <1>2, <1>5 DEF vars
<1>. QED BY <1>1, <1>3, <1>4, <1>5 DEF Next

LEMMA CountersStart == Init => CountersInv
<1>. SUFFICES ASSUME Init PROVE CountersInv
  OBVIOUS
<1>1. outcomes = <<>> /\ errors = 0 /\ successes = 0
  BY DEF Init, DestInit
<1>2. Failures = {}
  BY <1>1 DEF Failures, Recent
<1>3. Cardinality(Failures) = 0
  BY <1>2, FS_EmptySet
<1>4. ErrorMax \in Nat
  BY UdpDestinationAssumption
<1>. QED BY <1>1, <1>3, <1>4 DEF CountersInv, Streak

\* routePayload() gives up for as many failures as error_turnoff_threshold says,
\* counted since sending last worked for a while, whatever the threshold, the
\* factor of the reports and the number of messages (UDP_mfPlugin.cc:383-419).
THEOREM OffForErrors == Spec => []OffMeansErrors
<1>1. CountersInv => OffMeansErrors
  <2>. SUFFICES ASSUME CountersInv, \E i \in DOMAIN outcomes : outcomes[i] = "off"
                PROVE  ErrorMax > 0 /\ Cardinality(Failures) = ErrorMax
    BY DEF OffMeansErrors, Failures
  <2>. QED BY UdpDestinationAssumption DEF CountersInv, IsOn
<1>. QED BY <1>1, CountersStart, CountersStep, PTL DEF Spec

-----------------------------------------------------------------------------
(* Both ends of a link.                                                    *)

\* The group a receiver asks for.
GroupAsked == IF RecvMulticast /\ ~Listens.skips THEN Listens.group ELSE NoAddress

EndsInv ==
  /\ sock = "open" => target = ResolveHostPort(HostSpec, Port)
  /\ receivers \subseteq Configured /\ running \subseteq Configured
  /\ rsock \in [Configured -> {"none", "open"}] /\ DOMAIN joined = Configured
  /\ \A r \in Configured : rsock[r] = "open" => joined[r] = GroupAsked

LEMMA RouteEnds == ASSUME EndsInv, NEW m, Log(m) PROVE EndsInv'
<1>1. sock' = "open" => target' = ResolveHostPort(HostSpec, Port)
  BY DEF Log, Route, Reconnect, EndsInv
<1>2. UNCHANGED <<receivers, running, rsock, joined>>
  BY DEF Log, threadVars, udpVars
<1>. QED BY <1>1, <1>2 DEF EndsInv, GroupAsked

LEMMA ReceiveEnds == ASSUME EndsInv, NEW r \in Configured, Receive(r) PROVE EndsInv'
<1>1. sock' = sock /\ target' = target
  BY DEF Receive, destVars
<1>2. CASE Leave(r)
  BY <1>1, <1>2 DEF Leave, Return, udpVars, EndsInv, GroupAsked
<1>3. CASE Top(r)
  <2>1. receivers' = receivers /\ running' = running
    BY <1>3 DEF Top, threadVars
  <2>2. CASE UNCHANGED <<rsock, joined>>
    BY <1>1, <2>1, <2>2 DEF EndsInv, GroupAsked
  <2>3. CASE /\ rsock' = [rsock EXCEPT ![r] = "open"]
             /\ joined' = [joined EXCEPT ![r] = GroupAsked]
    BY <1>1, <2>1, <2>3 DEF EndsInv, GroupAsked
  <2>. QED BY <1>3, <2>2, <2>3 DEF Top, GroupAsked
<1>4. CASE TopExits(r)
  BY <1>1, <1>4 DEF TopExits, Exit, udpVars, EndsInv, GroupAsked
<1>5. CASE PollData(r) \/ PollNothing(r) \/ Read(r)
  BY <1>1, <1>5 DEF PollData, PollNothing, Read, threadVars, EndsInv, GroupAsked
<1>6. CASE PollError(r)
  BY <1>1, <1>6 DEF PollError, threadVars, EndsInv, GroupAsked
<1>7. CASE Parse(r)
  BY <1>1, <1>7 DEF Parse, EndsInv, GroupAsked
<1>. QED BY <1>2, <1>3, <1>4, <1>5, <1>6, <1>7 DEF Receive, Loop

LEMMA ManageEnds == EndsInv /\ Manage => EndsInv'
<1>. SUFFICES ASSUME EndsInv, Manage PROVE EndsInv'
  OBVIOUS
<1>1. UNCHANGED <<sock, target, rsock, joined>>
  BY DEF Manage, destVars, udpVars
<1>2. receivers' \subseteq Configured /\ running' \subseteq Configured
  BY DEF Manage, ManagerNext, Start, Stop, Stopped, Destroy, Deliver, EndsInv
<1>. QED BY <1>1, <1>2 DEF EndsInv, GroupAsked

LEMMA EndsStep == EndsInv /\ [Next]_vars => EndsInv'
<1>. SUFFICES ASSUME EndsInv, [Next]_vars PROVE EndsInv'
  OBVIOUS
<1>1. CASE \E m \in Msgs : Log(m)
  BY <1>1, RouteEnds
<1>2. CASE UNCHANGED <<sock, target, receivers, running, rsock, joined>>
  BY <1>2 DEF EndsInv, GroupAsked
<1>3. CASE (\E d \in net : Lose(d)) \/ \E d \in net \cup Foreign, r \in Configured : Arrive(d, r)
  BY <1>2, <1>3 DEF Lose, Arrive, destVars, threadVars, udpVars
<1>4. CASE Manage
  BY <1>4, ManageEnds
<1>5. CASE \E r \in Configured : Receive(r)
  BY <1>5, ReceiveEnds
<1>6. CASE UNCHANGED vars
  BY <1>2, <1>6 DEF vars, destVars, threadVars, udpVars
<1>. QED BY <1>1, <1>3, <1>4, <1>5, <1>6 DEF Next

\* The two ways in which the helpers read a configured host give one address when
\* the text has no port and is not "localhost", the one name they treat differently.
LEMMA OneAddress ==
  ASSUME HostSpec = RecvSpec, HostSpec.form \in {"host", "other"}, ~Listens.skips
  PROVE  /\ ResolveHostPort(HostSpec, Port).address = Listens.group
         /\ ResolveHostPort(HostSpec, Port).port = Port
<1>1. ResolveHostPort(HostSpec, Port).port = Port
  BY DEF ResolveHostPort, PortPart
<1>2. Listens.group = Lookup(HostPart(HostSpec))
  BY DEF Listens, ResolveHost
<1>3. HostPart(HostSpec) # "localhost"
  BY DEF Listens, HostPart, Loopback
<1>4. ResolveHostPort(HostSpec, Port).address = Lookup(HostPart(HostSpec))
  BY <1>3 DEF ResolveHostPort
<1>. QED BY <1>1, <1>2, <1>4

\* A destination and a receiver with one address and port in their configurations
\* are on one port and in one group, for any resolver and interfaces, however the
\* network treats the datagrams and the receiver's socket
\* (UDP_mfPlugin.cc:242-300, UDP_receiver.cc:22-73, TCPConnect.hh:42-256).
THEOREM EndsMeet == Spec => []SameGroup
<1>1. Init => EndsInv
  BY DEF Init, DestInit, ThreadsInit, UdpReceiverInit, EndsInv
<1>2. EndsInv => SameGroup
  <2>. SUFFICES ASSUME EndsInv, HostSpec = RecvSpec, Port = RecvPort,
                       HostSpec.form \in {"host", "other"}, sock = "open",
                       NEW r \in running, rsock[r] = "open"
                PROVE  /\ target.port = RecvPort
                       /\ RecvMulticast /\ ~Listens.skips => joined[r] = target.address
    BY DEF SameGroup
  <2>1. target.port = RecvPort
    BY DEF EndsInv, ResolveHostPort, PortPart
  <2>2. RecvMulticast /\ ~Listens.skips => joined[r] = target.address
    BY OneAddress DEF EndsInv, GroupAsked
  <2>. QED BY <2>1, <2>2
<1>. QED BY <1>1, <1>2, EndsStep, PTL DEF Spec
-----------------------------------------------------------------------------
(* What read_msg() makes of a datagram.                                    *)

\* The pieces before the body, in the order in which the destination writes them.
Head13 ==
  [i \in 1 .. 13 |->
     CASE i = 1  -> Piece("tag", "tag")         [] i = 2  -> Piece("stamp", StampLook)
       [] i = 3  -> Piece("seq", "number")      [] i = 4  -> Piece("hostname", HostLook)
       [] i = 5  -> Piece("hostaddr", "number") [] i = 6  -> Piece("sev", "word")
       [] i = 7  -> Piece("id", "word")         [] i = 8  -> Piece("app", "word")
       [] i = 9  -> Piece("pid", "number")      [] i = 10 -> Piece("iteration", "word")
       [] i = 11 -> Piece("module", "word")     [] i = 12 -> Piece("file", "word")
       [] i = 13 -> Piece("line", "number")]

Parts ==
  {"tag", "stamp", "seq", "hostname", "hostaddr", "sev", "id", "app", "pid", "iteration",
   "module", "file", "line", "body"}

PieceType == [of : Parts, part : Nat, look : Looks]

LEMMA PrefixIs ==
  /\ <<Piece("tag", "tag")>> \o Prefix \in Seq(PieceType)
  /\ Len(<<Piece("tag", "tag")>> \o Prefix) = 13
  /\ \A i \in 1 .. 13 : (<<Piece("tag", "tag")>> \o Prefix)[i] = Head13[i]
  /\ Len(Prefix) = 12
<1>. DEFINE a == <<Piece("stamp", StampLook), Piece("seq", "number"), Piece("hostname", HostLook),
                   Piece("hostaddr", "number"), Piece("sev", "word")>>
            b == <<Piece("id", "word")>>
            c == <<Piece("app", "word")>>
            d == <<Piece("pid", "number"), Piece("iteration", "word")>>
            e == <<Piece("module", "word")>>
            f == <<Piece("file", "word"), Piece("line", "number")>>
            g == <<Piece("tag", "tag")>>
<1>0. StampLook \in Looks /\ HostLook \in Looks
  BY UdpDestinationAssumption
<1>t. \A x \in Parts, y \in Looks : Piece(x, y) \in PieceType
  BY DEF Piece, PieceType
<1>1. a \in Seq(PieceType) /\ Len(a) = 5 /\ b \in Seq(PieceType) /\ Len(b) = 1
      /\ c \in Seq(PieceType) /\ Len(c) = 1 /\ d \in Seq(PieceType) /\ Len(d) = 2
      /\ e \in Seq(PieceType) /\ Len(e) = 1 /\ f \in Seq(PieceType) /\ Len(f) = 2
      /\ g \in Seq(PieceType) /\ Len(g) = 1
  <2>1. /\ Piece("stamp", StampLook) \in PieceType /\ Piece("seq", "number") \in PieceType
        /\ Piece("hostname", HostLook) \in PieceType /\ Piece("hostaddr", "number") \in PieceType
        /\ Piece("sev", "word") \in PieceType /\ Piece("id", "word") \in PieceType
        /\ Piece("app", "word") \in PieceType /\ Piece("pid", "number") \in PieceType
        /\ Piece("iteration", "word") \in PieceType /\ Piece("module", "word") \in PieceType
        /\ Piece("file", "word") \in PieceType /\ Piece("line", "number") \in PieceType
        /\ Piece("tag", "tag") \in PieceType
    BY <1>0, <1>t DEF Parts, Looks
  <2>. QED BY <2>1
<1>2. /\ a[1] = Piece("stamp", StampLook) /\ a[2] = Piece("seq", "number")
      /\ a[3] = Piece("hostname", HostLook) /\ a[4] = Piece("hostaddr", "number")
      /\ a[5] = Piece("sev", "word") /\ b[1] = Piece("id", "word") /\ c[1] = Piece("app", "word")
      /\ d[1] = Piece("pid", "number") /\ d[2] = Piece("iteration", "word")
      /\ e[1] = Piece("module", "word") /\ f[1] = Piece("file", "word")
      /\ f[2] = Piece("line", "number") /\ g[1] = Piece("tag", "tag")
  OBVIOUS
<1>3. Prefix = a \o b \o c \o d \o e \o f
  BY DEF Prefix, Cleaned
<1>. HIDE DEF a, b, c, d, e, f, g
<1>. DEFINE p == a \o b
            q == p \o c
            r == q \o d
            s == r \o e
            t == s \o f
            u == g \o t
<1>4. p \in Seq(PieceType) /\ Len(p) = 6 /\ (\A i \in 1 .. 5 : p[i] = a[i]) /\ p[6] = b[1]
  <2>0. a \in Seq(PieceType) /\ b \in Seq(PieceType)
    BY <1>1
  <2>1. /\ p \in Seq(PieceType) /\ Len(p) = Len(a) + Len(b)
        /\ \A i \in 1 .. Len(a) : p[i] = a[i]
        /\ \A i \in 1 .. Len(b) : p[Len(a) + i] = b[i]
    BY <2>0, Concatenated
  <2>. QED BY <1>1, <2>1
<1>5. q \in Seq(PieceType) /\ Len(q) = 7 /\ (\A i \in 1 .. 6 : q[i] = p[i])
      /\ q[7] = c[1]
  <2>. HIDE DEF p
  <2>1. /\ q \in Seq(PieceType) /\ Len(q) = Len(p) + Len(c)
        /\ \A i \in 1 .. Len(p) : q[i] = p[i]
        /\ \A i \in 1 .. Len(c) : q[Len(p) + i] = c[i]
    <3>1. p \in Seq(PieceType) /\ c \in Seq(PieceType)
      BY <1>1, <1>4
    <3>. QED BY <3>1, Concatenated
  <2>. HIDE DEF q
  <2>. QED BY <1>1, <1>4, <2>1
<1>6. r \in Seq(PieceType) /\ Len(r) = 9 /\ (\A i \in 1 .. 7 : r[i] = q[i])
      /\ r[8] = d[1] /\ r[9] = d[2]
  <2>. HIDE DEF q
  <2>1. /\ r \in Seq(PieceType) /\ Len(r) = Len(q) + Len(d)
        /\ \A i \in 1 .. Len(q) : r[i] = q[i]
        /\ \A i \in 1 .. Len(d) : r[Len(q) + i] = d[i]
    <3>1. q \in Seq(PieceType) /\ d \in Seq(PieceType)
      BY <1>1, <1>5
    <3>. QED BY <3>1, Concatenated
  <2>. HIDE DEF r
  <2>. QED BY <1>1, <1>5, <2>1
<1>7. s \in Seq(PieceType) /\ Len(s) = 10 /\ (\A i \in 1 .. 9 : s[i] = r[i])
      /\ s[10] = e[1]
  <2>. HIDE DEF r
  <2>1. /\ s \in Seq(PieceType) /\ Len(s) = Len(r) + Len(e)
        /\ \A i \in 1 .. Len(r) : s[i] = r[i]
        /\ \A i \in 1 .. Len(e) : s[Len(r) + i] = e[i]
    <3>1. r \in Seq(PieceType) /\ e \in Seq(PieceType)
      BY <1>1, <1>6
    <3>. QED BY <3>1, Concatenated
  <2>. HIDE DEF s
  <2>. QED BY <1>1, <1>6, <2>1
<1>8. t \in Seq(PieceType) /\ Len(t) = 12 /\ (\A i \in 1 .. 10 : t[i] = s[i])
      /\ t[11] = f[1] /\ t[12] = f[2]
  <2>. HIDE DEF s
  <2>1. /\ t \in Seq(PieceType) /\ Len(t) = Len(s) + Len(f)
        /\ \A i \in 1 .. Len(s) : t[i] = s[i]
        /\ \A i \in 1 .. Len(f) : t[Len(s) + i] = f[i]
    <3>1. s \in Seq(PieceType) /\ f \in Seq(PieceType)
      BY <1>1, <1>7
    <3>. QED BY <3>1, Concatenated
  <2>. HIDE DEF t
  <2>. QED BY <1>1, <1>7, <2>1
<1>9. u \in Seq(PieceType) /\ Len(u) = 13 /\ u[1] = g[1] /\ (\A i \in 1 .. 12 : u[1 + i] = t[i])
  <2>. HIDE DEF t
  <2>1. /\ u \in Seq(PieceType) /\ Len(u) = Len(g) + Len(t)
        /\ \A i \in 1 .. Len(g) : u[i] = g[i]
        /\ \A i \in 1 .. Len(t) : u[Len(g) + i] = t[i]
    <3>1. g \in Seq(PieceType) /\ t \in Seq(PieceType)
      BY <1>1, <1>8
    <3>. QED BY <3>1, Concatenated
  <2>. HIDE DEF u
  <2>. QED BY <1>1, <1>8, <2>1
<1>10. u = <<Piece("tag", "tag")>> \o Prefix /\ t = Prefix
  BY <1>3 DEF g
<1>. HIDE DEF p, q, r, s, t, u
<1>11. /\ u[1] = Piece("tag", "tag") /\ u[2] = Piece("stamp", StampLook)
       /\ u[3] = Piece("seq", "number") /\ u[4] = Piece("hostname", HostLook)
       /\ u[5] = Piece("hostaddr", "number") /\ u[6] = Piece("sev", "word")
       /\ u[7] = Piece("id", "word") /\ u[8] = Piece("app", "word")
       /\ u[9] = Piece("pid", "number") /\ u[10] = Piece("iteration", "word")
       /\ u[11] = Piece("module", "word") /\ u[12] = Piece("file", "word")
       /\ u[13] = Piece("line", "number")
  <2>1. /\ u[1] = g[1] /\ u[2] = t[1] /\ u[3] = t[2] /\ u[4] = t[3] /\ u[5] = t[4] /\ u[6] = t[5]
        /\ u[7] = t[6] /\ u[8] = t[7] /\ u[9] = t[8] /\ u[10] = t[9] /\ u[11] = t[10]
        /\ u[12] = t[11] /\ u[13] = t[12]
    BY <1>9
  <2>2. /\ t[1] = a[1] /\ t[2] = a[2] /\ t[3] = a[3] /\ t[4] = a[4] /\ t[5] = a[5] /\ t[6] = b[1]
        /\ t[7] = c[1] /\ t[8] = d[1] /\ t[9] = d[2] /\ t[10] = e[1]
    BY <1>4, <1>5, <1>6, <1>7, <1>8
  <2>. QED BY <1>2, <1>8, <2>1, <2>2
<1>12. \A i \in 1 .. 13 : u[i] = Head13[i]
  BY <1>11 DEF Head13
<1>. QED BY <1>8, <1>9, <1>10, <1>12

\* A datagram is these pieces and the body, which is not empty.
LEMMA DatagramIs ==
  ASSUME NEW m \in Msgs
  PROVE  /\ Datagram[m] \in Seq(PieceType) /\ Body(m) \in Seq(PieceType)
         /\ Len(Body(m)) \in Nat \ {0} /\ Len(Datagram[m]) = 13 + Len(Body(m))
         /\ \A i \in 1 .. 13 : Datagram[m][i] = Head13[i]
         /\ \A i \in 1 .. Len(Body(m)) : Datagram[m][13 + i] = Body(m)[i]
<1>. DEFINE p == <<Piece("tag", "tag")>> \o Prefix
            b == Body(m)
            d == Datagram[m]
<1>1. m.body \in Seq(Looks) /\ m.body # <<>>
  BY UdpDestinationAssumption
<1>2. DOMAIN m.body = 1 .. Len(m.body) /\ Len(m.body) \in Nat \ {0}
      /\ \A i \in DOMAIN m.body : m.body[i] \in Looks
  BY <1>1
<1>3. b \in [1 .. Len(m.body) -> PieceType]
  <2>1. \A i \in 1 .. Len(m.body) : [of |-> "body", part |-> i, look |-> m.body[i]] \in PieceType
    BY <1>2 DEF PieceType, Parts
  <2>. QED BY <1>2, <2>1 DEF Body
<1>4. b \in Seq(PieceType) /\ Len(b) = Len(m.body)
  BY <1>2, <1>3
<1>5. d = p \o b
  BY DEF Datagram
<1>6. p \in Seq(PieceType) /\ Len(p) = 13 /\ \A i \in 1 .. 13 : p[i] = Head13[i]
  BY PrefixIs
<1>. HIDE DEF p, b, d
<1>7. /\ d \in Seq(PieceType) /\ Len(d) = Len(p) + Len(b)
      /\ \A i \in 1 .. Len(p) : d[i] = p[i]
      /\ \A i \in 1 .. Len(b) : d[Len(p) + i] = b[i]
  <2>1. p \in Seq(PieceType) /\ b \in Seq(PieceType)
    BY <1>4, <1>6
  <2>. QED BY <1>5, <2>1, Concatenated
<1>8. Len(d) = 13 + Len(b) /\ (\A i \in 1 .. 13 : d[i] = Head13[i])
      /\ \A i \in 1 .. Len(b) : d[13 + i] = b[i]
  BY <1>6, <1>7
<1>. QED BY <1>2, <1>4, <1>7, <1>8 DEF b, d

\* What read() returns of it is these pieces and the beginning of the body.
LEMMA CutIs ==
  ASSUME NEW m \in Msgs, NEW d \in Cut(Datagram[m], Room)
  PROVE  \E b \in Cut(Body(m), Room - Len(Prefix) - 1) :
           /\ b \in Seq(PieceType) /\ Len(b) \in Nat \ {0}
           /\ d \in Seq(PieceType) /\ Len(d) = 13 + Len(b)
           /\ \A i \in 1 .. 13 : d[i] = Head13[i]
           /\ \A i \in 1 .. Len(b) : d[13 + i] = b[i]
<1>. DEFINE w == Datagram[m]
            c == Body(m)
            k == Room - 13
<1>1. w \in Seq(PieceType) /\ c \in Seq(PieceType) /\ Len(c) \in Nat \ {0} /\ Len(w) = 13 + Len(c)
      /\ (\A i \in 1 .. 13 : w[i] = Head13[i]) /\ \A i \in 1 .. Len(c) : w[13 + i] = c[i]
  BY DatagramIs
<1>2. Room \in Nat /\ Len(Prefix) = 12 /\ k \in Nat /\ Room - Len(Prefix) - 1 = k /\ Room = 13 + k
  BY UdpLinkAssumption, PrefixIs
<1>3. /\ Cut(w, Room) = IF Len(w) <= Room THEN {w}
                        ELSE {Append(SubSeq(w, 1, Room), [w[Room + 1] EXCEPT !.look = l]) :
                                l \in Beginnings(w[Room + 1].look)}
      /\ Cut(c, k) = IF Len(c) <= k THEN {c}
                     ELSE {Append(SubSeq(c, 1, k), [c[k + 1] EXCEPT !.look = l]) :
                             l \in Beginnings(c[k + 1].look)}
  BY DEF Cut
<1>4. d \in Cut(w, Room)
  OBVIOUS
<1>. HIDE DEF w, c, k
<1>. SUFFICES \E b \in Cut(c, k) :
                /\ b \in Seq(PieceType) /\ Len(b) \in Nat \ {0}
                /\ d \in Seq(PieceType) /\ Len(d) = 13 + Len(b)
                /\ \A i \in 1 .. 13 : d[i] = Head13[i]
                /\ \A i \in 1 .. Len(b) : d[13 + i] = b[i]
  BY <1>2 DEF c
<1>5. CASE Len(w) <= Room
  <2>1. d = w /\ c \in Cut(c, k)
    BY <1>1, <1>2, <1>3, <1>4, <1>5
  <2>. QED BY <1>1, <2>1
<1>6. CASE ~(Len(w) <= Room)
  <2>1. PICK l \in Beginnings(w[Room + 1].look) :
          d = Append(SubSeq(w, 1, Room), [w[Room + 1] EXCEPT !.look = l])
    BY <1>3, <1>4, <1>6
  <2>2. k + 1 \in 1 .. Len(c) /\ ~(Len(c) <= k) /\ w[Room + 1] = c[k + 1]
    <3>1. k + 1 \in 1 .. Len(c) /\ ~(Len(c) <= k) /\ Room + 1 = 13 + (k + 1)
      <4>1. Len(c) \in Nat /\ Len(w) = 13 + Len(c)
        BY <1>1
      <4>2. k \in Nat /\ Room = 13 + k
        BY <1>2
      <4>. QED BY <1>6, <4>1, <4>2
    <3>. QED BY <1>1, <3>1
  <2>. DEFINE x == [c[k + 1] EXCEPT !.look = l]
              u == SubSeq(w, 1, Room)
              v == SubSeq(c, 1, k)
              b == Append(v, x)
  <2>3. x \in PieceType
    <3>1. c[k + 1] \in PieceType
      BY <1>1, <2>2
    <3>2. l \in Looks
      BY <2>1, <2>2, <3>1 DEF Beginnings, Looks, PieceType
    <3>. QED BY <3>1, <3>2 DEF PieceType
  <2>4. u \in Seq(PieceType) /\ Len(u) = Room /\ \A i \in 1 .. Room : u[i] = w[i]
    <3>1. 1 \in 1 .. Len(w) + 1 /\ 1 <= Room + 1 /\ Room <= Len(w)
      BY <1>1, <1>2, <1>6
    <3>2. /\ u \in Seq(PieceType) /\ Len(u) = Room - 1 + 1
          /\ \A i \in 1 .. Room - 1 + 1 : u[i] = w[1 + i - 1]
      BY <1>1, <1>2, <3>1, Part
    <3>. HIDE DEF u
    <3>. QED BY <1>2, <3>2
  <2>5. v \in Seq(PieceType) /\ Len(v) = k /\ \A i \in 1 .. k : v[i] = c[i]
    <3>1. 1 \in 1 .. Len(c) + 1 /\ 1 <= k + 1 /\ k <= Len(c)
      BY <1>1, <1>2, <2>2
    <3>2. /\ v \in Seq(PieceType) /\ Len(v) = k - 1 + 1
          /\ \A i \in 1 .. k - 1 + 1 : v[i] = c[1 + i - 1]
      BY <1>1, <1>2, <3>1, Part
    <3>. HIDE DEF v
    <3>3. k - 1 + 1 = k /\ \A i \in 1 .. k : 1 + i - 1 = i
      BY <1>2
    <3>. QED BY <3>2, <3>3
  <2>6. d = Append(u, x) /\ b \in Cut(c, k)
    BY <1>3, <2>1, <2>2
  <2>. HIDE DEF u, v, x
  <2>7. /\ b \in Seq(PieceType) /\ Len(b) = k + 1 /\ b[k + 1] = x /\ \A i \in 1 .. k : b[i] = v[i]
        /\ d \in Seq(PieceType) /\ Len(d) = Room + 1 /\ d[Room + 1] = x
        /\ \A i \in 1 .. Room : d[i] = u[i]
    BY <1>2, <2>3, <2>4, <2>5, <2>6
  <2>. HIDE DEF b
  <2>8. \A i \in 1 .. 13 : d[i] = Head13[i]
    <3>1. \A i \in 1 .. 13 : i \in 1 .. Room
      BY <1>2
    <3>. QED BY <1>1, <2>4, <2>7, <3>1
  <2>9. \A i \in 1 .. k + 1 : d[13 + i] = b[i]
    <3>. SUFFICES ASSUME NEW i \in 1 .. k + 1 PROVE d[13 + i] = b[i]
      OBVIOUS
    <3>1. CASE i = k + 1
      BY <1>2, <2>7, <3>1
    <3>2. CASE i # k + 1
      <4>1. i \in 1 .. k /\ 13 + i \in 1 .. Room /\ i \in 1 .. Len(c)
        BY <1>2, <2>2, <3>2
      <4>2. d[13 + i] = w[13 + i] /\ b[i] = c[i]
        BY <2>4, <2>5, <2>7, <4>1
      <4>. QED BY <1>1, <4>1, <4>2
    <3>. QED BY <3>1, <3>2
  <2>10. Len(b) \in Nat \ {0} /\ Len(d) = 13 + Len(b)
    <3>1. k \in Nat /\ Room = 13 + k /\ Len(b) = k + 1 /\ Len(d) = Room + 1
      BY <1>2, <2>7
    <3>. QED BY <3>1
  <2>11. \A i \in 1 .. Len(b) : d[13 + i] = b[i]
    BY <2>7, <2>9
  <2>. QED BY <2>6, <2>7, <2>8, <2>10, <2>11
<1>. QED BY <1>5, <1>6

\* The receiver's tokens are the 13 pieces and those of the body.
LEMMA TokensAre ==
  ASSUME NEW b \in Seq(PieceType), Len(b) \in Nat \ {0},
         NEW d \in Seq(PieceType), Len(d) = 13 + Len(b),
         \A i \in 1 .. 13 : d[i] = Head13[i], \A i \in 1 .. Len(b) : d[13 + i] = b[i]
  PROVE  /\ Tokens(d) \in Seq(PieceType) /\ Len(Tokens(d)) >= 13
         /\ \A i \in 1 .. 13 : Tokens(d)[i] = Head13[i]
         /\ SubSeq(Tokens(d), 14, Len(Tokens(d))) = Tokens(b)
<1>. DEFINE n == Len(b)
<1>1. d \in Seq(PieceType) /\ b \in Seq(PieceType) /\ n \in Nat \ {0} /\ Len(d) = 13 + n
      /\ (\A i \in 1 .. 13 : d[i] = Head13[i]) /\ \A i \in 1 .. n : d[13 + i] = b[i]
  OBVIOUS
<1>2. Tokens(d) = (IF d[Len(d)].look = "empty" THEN SubSeq(d, 1, Len(d) - 1) ELSE d)
      /\ Tokens(b) = (IF b[Len(b)].look = "empty" THEN SubSeq(b, 1, Len(b) - 1) ELSE b)
  BY DEF Tokens, Last, Front
<1>3. d[Len(d)] = b[n]
  <2>1. n \in 1 .. n /\ Len(d) = 13 + n
    BY <1>1
  <2>2. d[13 + n] = b[n]
    BY <1>1, <2>1
  <2>. QED BY <2>1, <2>2
<1>4. CASE b[n].look = "empty"
  <2>. DEFINE ts == SubSeq(d, 1, 12 + n)
              u == SubSeq(ts, 14, 12 + n)
              v == SubSeq(b, 1, n - 1)
  <2>1. Tokens(d) = ts /\ Tokens(b) = v
    BY <1>1, <1>2, <1>3, <1>4
  <2>2. ts \in Seq(PieceType) /\ Len(ts) = 12 + n /\ \A k \in 1 .. 12 + n : ts[k] = d[k]
    <3>1. 1 \in 1 .. Len(d) + 1 /\ 12 + n \in Nat /\ 1 <= 12 + n + 1 /\ 12 + n <= Len(d)
      BY <1>1
    <3>2. /\ ts \in Seq(PieceType) /\ Len(ts) = 12 + n - 1 + 1
          /\ \A k \in 1 .. 12 + n - 1 + 1 : ts[k] = d[1 + k - 1]
      BY <1>1, <3>1, Part
    <3>. HIDE DEF ts
    <3>. QED BY <1>1, <3>2
  <2>. HIDE DEF ts
  <2>3. u \in Seq(PieceType) /\ Len(u) = n - 1 /\ \A k \in 1 .. n - 1 : u[k] = ts[13 + k]
    <3>1. 14 \in 1 .. Len(ts) + 1 /\ 12 + n \in Nat /\ 14 <= 12 + n + 1 /\ 12 + n <= Len(ts)
      BY <1>1, <2>2
    <3>2. /\ u \in Seq(PieceType) /\ Len(u) = 12 + n - 14 + 1
          /\ \A k \in 1 .. 12 + n - 14 + 1 : u[k] = ts[14 + k - 1]
      <4>1. ts \in Seq(PieceType)
        BY <2>2
      <4>2. n \in Nat
        BY <1>1
      <4>. HIDE DEF n
      <4>. QED BY <3>1, <4>1, <4>2, Part
    <3>. HIDE DEF u
    <3>. QED BY <1>1, <3>2
  <2>4. v \in Seq(PieceType) /\ Len(v) = n - 1 /\ \A k \in 1 .. n - 1 : v[k] = b[k]
    <3>1. 1 \in 1 .. Len(b) + 1 /\ n - 1 \in Nat /\ 1 <= n - 1 + 1 /\ n - 1 <= Len(b)
      BY <1>1
    <3>2. /\ v \in Seq(PieceType) /\ Len(v) = n - 1 - 1 + 1
          /\ \A k \in 1 .. n - 1 - 1 + 1 : v[k] = b[1 + k - 1]
      BY <1>1, <3>1, Part
    <3>. HIDE DEF v
    <3>. QED BY <1>1, <3>2
  <2>5. u = v
    <3>. HIDE DEF u, v
    <3>1. \A k \in 1 .. n - 1 : u[k] = v[k]
      <4>. SUFFICES ASSUME NEW k \in 1 .. n - 1 PROVE u[k] = v[k]
        OBVIOUS
      <4>1. u[k] = ts[13 + k] /\ v[k] = b[k]
        BY <2>3, <2>4
      <4>2. 13 + k \in 1 .. 12 + n /\ k \in 1 .. n
        BY <1>1
      <4>3. ts[13 + k] = d[13 + k]
        BY <2>2, <4>2
      <4>. QED BY <1>1, <4>1, <4>2, <4>3
    <3>. QED BY <2>3, <2>4, <3>1, SameSeq
  <2>6. \A i \in 1 .. 13 : ts[i] = Head13[i]
    BY <1>1, <2>2, SMTT(30)
  <2>7. Len(ts) >= 13 /\ SubSeq(ts, 14, Len(ts)) = v
    BY <1>1, <2>2, <2>5
  <2>. QED BY <2>1, <2>2, <2>6, <2>7
<1>5. CASE b[n].look # "empty"
  <2>. DEFINE u == SubSeq(d, 14, 13 + n)
  <2>1. Tokens(d) = d /\ Tokens(b) = b
    BY <1>1, <1>2, <1>3, <1>5
  <2>2. u \in Seq(PieceType) /\ Len(u) = n /\ \A k \in 1 .. n : u[k] = d[13 + k]
    <3>1. 14 \in 1 .. Len(d) + 1 /\ 13 + n \in Nat /\ 14 <= 13 + n + 1 /\ 13 + n <= Len(d)
      BY <1>1
    <3>2. /\ u \in Seq(PieceType) /\ Len(u) = 13 + n - 14 + 1
          /\ \A k \in 1 .. 13 + n - 14 + 1 : u[k] = d[14 + k - 1]
      BY <1>1, <3>1, Part
    <3>. HIDE DEF u
    <3>. QED BY <1>1, <3>2
  <2>3. u = b
    <3>. HIDE DEF u
    <3>1. \A k \in 1 .. Len(u) : u[k] = b[k]
      BY <1>1, <2>2
    <3>. QED BY <1>1, <2>2, <3>1, SameSeq
  <2>4. Len(d) >= 13 /\ SubSeq(d, 14, Len(d)) = b
    BY <1>1, <2>3
  <2>. QED BY <1>1, <2>1, <2>4
<1>. QED BY <1>4, <1>5

\* The host's name does not begin with a digit.
NamedHost == ~IsNumber(Piece("hostname", HostLook))

LEMMA PiecesAre ==
  /\ Head13[1] = Piece("tag", "tag") /\ Head13[2] = Piece("stamp", StampLook)
  /\ Head13[3] = Piece("seq", "number") /\ Head13[4] = Piece("hostname", HostLook)
  /\ Head13[5] = Piece("hostaddr", "number") /\ Head13[6] = Piece("sev", "word")
  /\ Head13[7] = Piece("id", "word") /\ Head13[8] = Piece("app", "word")
  /\ Head13[9] = Piece("pid", "number") /\ Head13[10] = Piece("iteration", "word")
  /\ Head13[11] = Piece("module", "word") /\ Head13[12] = Piece("file", "word")
  /\ Head13[13] = Piece("line", "number")
BY DEF Head13

\* A search that ends has found the destination's time stamp: what comes before the
\* severity is no time, and the search does not get past the severity.
LEMMA StampFound ==
  ASSUME NEW ts \in Seq(PieceType), Len(ts) >= 13, \A i \in 1 .. 13 : ts[i] = Head13[i],
         NamedHost, Readable(ts)
  PROVE  StampAt(ts) = 2
<1>. DEFINE I == {i \in 1 .. Len(ts) : IsTime(ts[i])}
<1>0. Len(ts) \in Nat
  OBVIOUS
<1>1. StampAt(ts) = IF I # {} THEN Min(I) ELSE 0
  BY DEF StampAt, SelectInSeq
<1>2. /\ ts[1].look = "tag" /\ ts[3].look = "number" /\ ts[4].look # "time"
      /\ ts[5].look = "number" /\ ts[6].look = "word"
  BY PiecesAre DEF Piece, NamedHost, IsNumber
<1>3. ~SearchEnds(ts[6])
  BY <1>2 DEF SearchEnds
<1>4. \A i \in 1 .. (IF StampAt(ts) = 0 THEN Len(ts) ELSE StampAt(ts)) : SearchEnds(ts[i])
  BY DEF Readable
<1>5. I # {}
  <2>. SUFFICES ASSUME I = {} PROVE FALSE
    OBVIOUS
  <2>1. StampAt(ts) = 0
    BY <1>1
  <2>2. 6 \in 1 .. Len(ts)
    BY <1>0
  <2>. QED BY <1>3, <1>4, <2>1, <2>2
<1>6. PICK m \in I : \A k \in I : m <= k
  <2>1. I \subseteq Nat
    BY <1>0
  <2>. HIDE DEF I
  <2>. QED BY <1>5, <2>1, LeastNatural
<1>7. Min(I) \in I
  BY <1>6 DEF Min
<1>8. StampAt(ts) \in 1 .. Len(ts) /\ ts[StampAt(ts)].look = "time"
  BY <1>1, <1>5, <1>7 DEF IsTime
<1>9. ~(6 <= StampAt(ts))
  <2>1. StampAt(ts) # 0
    BY <1>8
  <2>2. \A i \in 1 .. StampAt(ts) : SearchEnds(ts[i])
    BY <1>4, <2>1
  <2>. QED BY <1>0, <1>3, <1>8, <2>2
<1>10. StampAt(ts) \in {1, 2, 3, 4, 5}
  <2>. DEFINE k == StampAt(ts)
  <2>1. k \in Nat /\ 1 <= k /\ ~(6 <= k)
    BY <1>0, <1>8, <1>9
  <2>. HIDE DEF k
  <2>2. k \in {1, 2, 3, 4, 5}
    BY <2>1
  <2>. QED BY <2>2 DEF k
<1>. QED BY <1>2, <1>8, <1>10

\* A message as it came from the one that was sent: each field from its piece.
IsWhole(e, m) ==
  /\ e.body \in Bodies(m)
  /\ e.seq = Absent
  /\ \A f \in DOMAIN e \ {"body", "seq"} : e[f].of = f /\ e[f].part = 1

\* read_msg() finds every part of a datagram in its place, but for the sequence number.
LEMMA ReadIsWhole ==
  ASSUME NEW m \in Msgs, NEW d \in Cut(Datagram[m], Room), NamedHost, Readable(Tokens(d))
  PROVE  IsWhole(ReadMsg(Tokens(d)), m)
<1>. DEFINE ts == Tokens(d)
<1>0. PICK b \in Cut(Body(m), Room - Len(Prefix) - 1) :
        /\ b \in Seq(PieceType) /\ Len(b) \in Nat \ {0}
        /\ d \in Seq(PieceType) /\ Len(d) = 13 + Len(b)
        /\ \A i \in 1 .. 13 : d[i] = Head13[i]
        /\ \A i \in 1 .. Len(b) : d[13 + i] = b[i]
  BY CutIs
<1>1. /\ ts \in Seq(PieceType) /\ Len(ts) >= 13 /\ (\A i \in 1 .. 13 : ts[i] = Head13[i])
      /\ SubSeq(ts, 14, Len(ts)) = Tokens(b) /\ Tokens(b) \in Bodies(m)
  BY <1>0, TokensAre DEF Bodies
<1>. HIDE DEF ts
<1>2. StampAt(ts) = 2
  BY <1>1, StampFound DEF ts
<1>3. Len(ts) \in Nat
  BY <1>1
<1>4. NumberAt(ts, 3) = 3
  BY <1>1, <1>3, PiecesAre DEF NumberAt, NamedHost
<1>5. NumberAt(ts, 8) = 9
  <2>1. IsNumber(ts[9])
    BY <1>1, PiecesAre DEF Piece, IsNumber
  <2>. QED BY <1>1, <1>3, <2>1 DEF NumberAt
<1>6. \A i \in 1 .. 13 : i <= Len(ts)
  <2>1. Len(ts) >= 13
    BY <1>1
  <2>. QED BY <1>3, <2>1
<1>7. ReadMsg(ts) =
        [stamp |-> ts[2], seq |-> Absent,
         hostname |-> ts[4], hostaddr |-> ts[5], sev |-> ts[6], id |-> ts[7], app |-> ts[8],
         pid |-> ts[9], iteration |-> ts[10], module |-> ts[11], file |-> ts[12],
         line |-> ts[13], body |-> Tokens(b)]
  <2>1. /\ After(ts, 3, 1) = ts[4] /\ After(ts, 3, 2) = ts[5] /\ After(ts, 3, 3) = ts[6]
        /\ After(ts, 3, 4) = ts[7] /\ After(ts, 3, 5) = ts[8]
        /\ After(ts, 9, 1) = ts[10] /\ After(ts, 9, 2) = ts[11] /\ After(ts, 9, 3) = ts[12]
        /\ After(ts, 9, 4) = ts[13]
    BY <1>6 DEF After
  <2>2. 9 <= Len(ts) /\ 9 # 8
    BY <1>6
  <2>3. 2 + 1 = 3 /\ 3 + 5 = 8 /\ 9 + 5 = 14 /\ 2 # 0
    OBVIOUS
  <2>4. ReadMsg(ts) =
          [stamp |-> IF 2 = 0 THEN Arbitrary ELSE ts[2],
           seq |-> IF 3 <= Len(ts) /\ 3 # 3 THEN ts[3] ELSE Absent,
           hostname |-> After(ts, 3, 1), hostaddr |-> After(ts, 3, 2),
           sev |-> After(ts, 3, 3),      id |-> After(ts, 3, 4),
           app |-> After(ts, 3, 5),
           pid |-> IF 9 <= Len(ts) /\ 9 # 8 THEN ts[9] ELSE Absent,
           iteration |-> After(ts, 9, 1), module |-> After(ts, 9, 2),
           file |-> After(ts, 9, 3),      line |-> After(ts, 9, 4),
           body |-> SubSeq(ts, 14, Len(ts))]
    BY <1>2, <1>4, <1>5, <2>3, Zenon DEF ReadMsg
  <2>5. /\ (IF 2 = 0 THEN Arbitrary ELSE ts[2]) = ts[2]
        /\ (IF 3 <= Len(ts) /\ 3 # 3 THEN ts[3] ELSE Absent) = Absent
        /\ (IF 9 <= Len(ts) /\ 9 # 8 THEN ts[9] ELSE Absent) = ts[9]
    BY <2>2
  <2>6. SubSeq(ts, 14, Len(ts)) = Tokens(b)
    BY <1>1
  <2>. QED BY <2>1, <2>4, <2>5, <2>6, Zenon
<1>8. /\ ts[2].of = "stamp" /\ ts[2].part = 1 /\ ts[4].of = "hostname" /\ ts[5].of = "hostaddr" /\ ts[6].of = "sev" /\ ts[7].of = "id"
      /\ ts[8].of = "app" /\ ts[9].of = "pid" /\ ts[10].of = "iteration" /\ ts[11].of = "module"
      /\ ts[12].of = "file" /\ ts[13].of = "line" /\ \A i \in 4 .. 13 : ts[i].part = 1
  <2>1. /\ ts[2] = Head13[2] /\ ts[4] = Head13[4] /\ ts[5] = Head13[5] /\ ts[6] = Head13[6] /\ ts[7] = Head13[7]
        /\ ts[8] = Head13[8] /\ ts[9] = Head13[9] /\ ts[10] = Head13[10] /\ ts[11] = Head13[11]
        /\ ts[12] = Head13[12] /\ ts[13] = Head13[13]
    BY <1>1
  <2>. QED BY <2>1, PiecesAre DEF Piece
<1>. DEFINE e == ReadMsg(ts)
<1>9. /\ e.body \in Bodies(m) /\ e.seq = Absent
      /\ DOMAIN e \ {"body", "seq"}
           = {"stamp", "hostname", "hostaddr", "sev", "id", "app", "pid", "iteration", "module",
              "file", "line"}
  BY <1>1, <1>7
<1>10. /\ e.stamp = ts[2] /\ e.hostname = ts[4] /\ e.hostaddr = ts[5] /\ e.sev = ts[6]
       /\ e.id = ts[7] /\ e.app = ts[8] /\ e.pid = ts[9] /\ e.iteration = ts[10]
       /\ e.module = ts[11] /\ e.file = ts[12] /\ e.line = ts[13]
  BY <1>7
<1>11. \A i \in 4 .. 13 : ts[i].part = 1
  BY <1>8
<1>. HIDE DEF e
<1>12. \A f \in DOMAIN e \ {"body", "seq"} : e[f].of = f /\ e[f].part = 1
  BY <1>8, <1>9, <1>10, <1>11
<1>. QED BY <1>9, <1>12 DEF IsWhole, e, ts

-----------------------------------------------------------------------------
(* What arrives.                                                           *)

\* What other programs send is not taken for a message.
NoneForeign ==
  \A d \in UNION {Cut(w, Room) : w \in Foreign} : ~(Validates(d) /\ Readable(Tokens(d)))

\* What may have come to a socket, what read() may have returned, and what may have
\* come out of a receiver.
Came == Foreign \cup {Datagram[m] : m \in sentMsgs}
Seen == UNION {Cut(d, Room) : d \in Came}
Told ==
  {ReadMsg(Tokens(d)) :
     d \in {c \in UNION {Cut(Datagram[m], Room) : m \in sentMsgs} : Readable(Tokens(c))}}

Places == {"top", "poll", "read", "parse", "stuck"}

CameInv ==
  /\ sentMsgs \subseteq Msgs /\ net \subseteq {Datagram[m] : m \in sentMsgs}
  /\ inbox \in [Configured -> Seq(Came)]
  /\ at \in [Configured -> Places] /\ rsock \in [Configured -> {"none", "open"}]
  /\ DOMAIN packet = Configured
  /\ \A r \in Configured : /\ at[r] = "read" => inbox[r] # <<>>
                           /\ at[r] = "parse" => packet[r] \in Seen /\ Validates(packet[r])
  /\ posted \in Seq(Told) /\ shown \in Seq(Told)
  /\ arrivals \in 0 .. MaxArrivals

\* No thread runs before the receivers are started, nor once stop() has returned.
ThreadsSound ==
  /\ ThreadsTypeOK
  /\ manager \in {"made", "stopped", "gone", "exited"} => running = {}

LEMMA SeqGrows == ASSUME NEW S, NEW T, S \subseteq T PROVE Seq(S) \subseteq Seq(T)
OBVIOUS

LEMMA RouteDest == ASSUME DestTypeOK, NEW m, NEW out, Route(m, out) PROVE DestTypeOK'
<1>0. Backoff \in Nat /\ errors \in Nat /\ successes \in Nat /\ nextReport \in Nat
      /\ outcomes \in Seq({"sent", "failed", "reported", "off"})
  BY UdpDestinationAssumption DEF DestTypeOK
<1>1. sock' \in {"none", "open"} /\ proc' \in {"up", "exited"}
  BY DEF Route, Reconnect, DestTypeOK
<1>2. nextReport * Backoff \in Nat
  BY <1>0
<1>3. CASE UNCHANGED <<errors, successes, nextReport, outcomes>>
  BY <1>0, <1>1, <1>3 DEF DestTypeOK
<1>4. CASE SendFails
  <2>1. errors' \in Nat /\ successes' \in Nat /\ nextReport' \in Nat
    BY <1>0, <1>2, <1>4 DEF SendFails
  <2>2. outcomes' \in Seq({"sent", "failed", "reported", "off"})
    BY <1>0, <1>4 DEF SendFails
  <2>. QED BY <1>1, <2>1, <2>2 DEF DestTypeOK
<1>5. CASE SendSucceeds
  <2>1. errors' \in Nat /\ successes' \in Nat /\ nextReport' \in Nat
    BY <1>0, <1>5 DEF SendSucceeds
  <2>2. outcomes' \in Seq({"sent", "failed", "reported", "off"})
    BY <1>0, <1>5 DEF SendSucceeds
  <2>. QED BY <1>1, <2>1, <2>2 DEF DestTypeOK
<1>6. CASE outcomes' = Append(outcomes, "off") /\ UNCHANGED <<errors, successes, nextReport>>
  <2>1. outcomes' \in Seq({"sent", "failed", "reported", "off"})
    BY <1>0, <1>6
  <2>. QED BY <1>0, <1>1, <1>6, <2>1 DEF DestTypeOK
<1>. QED BY <1>3, <1>4, <1>5, <1>6 DEF Route

LEMMA DestStep == DestTypeOK /\ [Next]_vars => DestTypeOK'
<1>. SUFFICES ASSUME DestTypeOK, [Next]_vars PROVE DestTypeOK'
  OBVIOUS
<1>1. CASE \E m \in Msgs : Log(m)
  BY <1>1, RouteDest DEF Log
<1>2. CASE UNCHANGED destVars
  BY <1>2 DEF destVars, DestTypeOK
<1>3. UNCHANGED destVars \/ \E m \in Msgs : Log(m)
  BY DEF Next, Lose, Arrive, Manage, Receive, vars
<1>. QED BY <1>1, <1>2, <1>3

LEMMA ThreadsStep == ThreadsSound /\ [Next]_vars => ThreadsSound'
<1>. SUFFICES ASSUME ThreadsSound, [Next]_vars PROVE ThreadsSound'
  OBVIOUS
<1>. USE DEF ThreadsSound, ThreadsTypeOK
<1>1. CASE UNCHANGED threadVars
  BY <1>1 DEF threadVars
<1>2. CASE ManagerNext
  <2>1. CASE Start
    BY <2>1 DEF Start
  <2>2. CASE Stop
    BY <2>2 DEF Stop
  <2>3. CASE Stopped
    BY <2>3 DEF Stopped
  <2>4. CASE Destroy
    BY <2>4 DEF Destroy
  <2>5. CASE Deliver
    BY <2>5 DEF Deliver
  <2>. QED BY <1>2, <2>1, <2>2, <2>3, <2>4, <2>5 DEF ManagerNext
<1>3. ASSUME NEW r \in Configured, Loop(r) PROVE ThreadsSound'
  <2>1. CASE Leave(r)
    BY <2>1 DEF Leave, Return
  <2>2. CASE TopExits(r)
    BY <2>2 DEF TopExits, Exit
  <2>3. CASE Parse(r)
    BY <2>3 DEF Parse
  <2>. QED BY <1>1, <1>3, <2>1, <2>2, <2>3
           DEF Loop, Top, PollData, PollNothing, PollError, Read
<1>4. UNCHANGED threadVars \/ ManagerNext \/ \E r \in Configured : Loop(r)
  BY DEF Next, Log, Lose, Arrive, Manage, Receive, vars
<1>. QED BY <1>1, <1>2, <1>3, <1>4

\* The same datagrams and messages may have come.
LEMMA CameSame == UNCHANGED sentMsgs => Came' = Came /\ Seen' = Seen /\ Told' = Told
BY DEF Came, Seen, Told

LEMMA LogCame == ASSUME CameInv, NEW m \in Msgs, Log(m) PROVE CameInv'
<1>1. PICK out \in {{}, {Datagram[m]}} :
        net' = net \cup out /\ sentMsgs' = IF out = {} THEN sentMsgs ELSE sentMsgs \cup {m}
  BY DEF Log
<1>2. UNCHANGED <<posted, shown, at, rsock, inbox, packet, arrivals>>
  BY DEF Log, threadVars, udpVars
<1>3. sentMsgs \subseteq sentMsgs' /\ sentMsgs' \subseteq Msgs
      /\ net' \subseteq {Datagram[k] : k \in sentMsgs'}
  BY <1>1 DEF CameInv
<1>4. Came \subseteq Came' /\ Seen \subseteq Seen' /\ Told \subseteq Told'
  BY <1>3 DEF Came, Seen, Told
<1>5. Seq(Came) \subseteq Seq(Came') /\ Seq(Told) \subseteq Seq(Told')
  BY <1>4, SeqGrows
<1>6. inbox' \in [Configured -> Seq(Came')] /\ posted' \in Seq(Told') /\ shown' \in Seq(Told')
  BY <1>2, <1>5 DEF CameInv
<1>. QED BY <1>2, <1>3, <1>4, <1>6 DEF CameInv, Validates

LEMMA ArriveCame ==
  ASSUME CameInv, NEW d, NEW r \in Configured, Arrive(d, r) PROVE CameInv'
<1>0. UNCHANGED <<posted, shown, at, rsock, packet, net, sentMsgs>>
  BY DEF Arrive, threadVars
<1>1. Came' = Came /\ Seen' = Seen /\ Told' = Told
  BY <1>0, CameSame
<1>2. d \in Came
  BY DEF Arrive, Came, CameInv
<1>3. inbox[r] \in Seq(Came)
  BY DEF CameInv
<1>4. Append(inbox[r], d) \in Seq(Came) /\ Append(inbox[r], d) # <<>>
  BY <1>2, <1>3
<1>5. inbox' = [inbox EXCEPT ![r] = Append(inbox[r], d)]
  BY DEF Arrive
<1>6. inbox' \in [Configured -> Seq(Came)]
      /\ \A q \in Configured : inbox[q] # <<>> => inbox'[q] # <<>>
  BY <1>4, <1>5 DEF CameInv
<1>7. arrivals' \in 0 .. MaxArrivals
  BY UdpLinkAssumption DEF Arrive, CameInv
<1>. QED BY <1>0, <1>1, <1>6, <1>7 DEF CameInv, Validates

LEMMA ReceiveCame ==
  ASSUME CameInv, NoneForeign, NEW r \in Configured, Receive(r) PROVE CameInv'
<1>0. UNCHANGED <<net, sentMsgs, arrivals>> /\ Loop(r)
  BY DEF Receive, linkVars
<1>1. Came' = Came /\ Seen' = Seen /\ Told' = Told
  BY <1>0, CameSame
<1>. USE DEF CameInv, Validates
<1>2. CASE Leave(r) \/ TopExits(r)
  BY <1>0, <1>1, <1>2 DEF Leave, TopExits, Exit, udpVars
<1>3. CASE Top(r)
  <2>1. UNCHANGED <<posted, shown, inbox, packet>> /\ at' = [at EXCEPT ![r] = "poll"]
    BY <1>3 DEF Top, threadVars, Goto
  <2>2. rsock' \in [Configured -> {"none", "open"}]
    BY <1>3 DEF Top
  <2>. QED BY <1>0, <1>1, <2>1, <2>2 DEF Places
<1>4. CASE PollData(r)
  <2>1. UNCHANGED <<posted, shown, inbox, packet, rsock>> /\ at' = [at EXCEPT ![r] = "read"]
        /\ inbox[r] # <<>>
    BY <1>4 DEF PollData, threadVars, Goto
  <2>. QED BY <1>0, <1>1, <2>1 DEF Places
<1>5. CASE PollNothing(r)
  <2>1. UNCHANGED <<posted, shown, inbox, packet, rsock>> /\ at' = [at EXCEPT ![r] = "top"]
    BY <1>5 DEF PollNothing, threadVars, Goto
  <2>. QED BY <1>0, <1>1, <2>1 DEF Places
<1>6. CASE PollError(r)
  <2>1. /\ UNCHANGED <<posted, shown, packet>> /\ at' = [at EXCEPT ![r] = "top"]
        /\ inbox' = [inbox EXCEPT ![r] = <<>>] /\ rsock' = [rsock EXCEPT ![r] = "none"]
    BY <1>6 DEF PollError, threadVars, Goto
  <2>2. inbox' \in [Configured -> Seq(Came)] /\ rsock' \in [Configured -> {"none", "open"}]
    BY <2>1
  <2>. QED BY <1>0, <1>1, <2>1, <2>2 DEF Places
<1>7. CASE Read(r)
  <2>0. UNCHANGED <<posted, shown, rsock>> /\ at[r] = "read"
    BY <1>7 DEF Read, threadVars
  <2>1. inbox[r] \in Seq(Came) /\ inbox[r] # <<>>
    BY <2>0
  <2>2. Tail(inbox[r]) \in Seq(Came) /\ Head(inbox[r]) \in Came
    BY <2>1
  <2>3. ASSUME NEW d \in Cut(Head(inbox[r]), Room), Validates(d),
               inbox' = [inbox EXCEPT ![r] = Tail(inbox[r])],
               packet' = [packet EXCEPT ![r] = d], at' = [at EXCEPT ![r] = "parse"]
        PROVE  CameInv'
    <3>1. inbox' \in [Configured -> Seq(Came)] /\ d \in Seen
      BY <2>2, <2>3 DEF Seen
    <3>. QED BY <1>0, <1>1, <2>0, <2>2, <2>3, <3>1 DEF Places
  <2>4. CASE /\ inbox' = [inbox EXCEPT ![r] = Tail(inbox[r])] /\ packet' = packet
             /\ at' = [at EXCEPT ![r] = "top"]
    <3>1. inbox' \in [Configured -> Seq(Came)]
      BY <2>2, <2>4
    <3>. QED BY <1>0, <1>1, <2>0, <2>4, <3>1 DEF Places
  <2>5. CASE UNCHANGED <<inbox, packet>> /\ at' = [at EXCEPT ![r] = "top"]
    BY <1>0, <1>1, <2>0, <2>5 DEF Places
  <2>. QED BY <1>7, <2>3, <2>4, <2>5 DEF Read, Goto
<1>8. CASE Parse(r)
  <2>0. UNCHANGED <<shown, rsock, inbox>> /\ at[r] = "parse"
    BY <1>8 DEF Parse
  <2>1. CASE /\ packet[r] \in DOMAIN MsgOf /\ posted' = Append(posted, MsgOf[packet[r]])
             /\ at' = [at EXCEPT ![r] = "top"] /\ packet' = [packet EXCEPT ![r] = <<>>]
    <3>1. Readable(Tokens(packet[r])) /\ MsgOf[packet[r]] = ReadMsg(Tokens(packet[r]))
      BY <2>1 DEF MsgOf
    <3>2. packet[r] \in UNION {Cut(Datagram[m], Room) : m \in sentMsgs}
      BY <2>0, <3>1 DEF NoneForeign, Came, Seen
    <3>3. MsgOf[packet[r]] \in Told
      BY <3>1, <3>2 DEF Told
    <3>4. posted' \in Seq(Told)
      BY <2>1, <3>3
    <3>. QED BY <1>0, <1>1, <2>0, <2>1, <3>4 DEF Places
  <2>2. CASE UNCHANGED <<posted, packet>> /\ at' = [at EXCEPT ![r] = "stuck"]
    BY <1>0, <1>1, <2>0, <2>2 DEF Places
  <2>. QED BY <1>8, <2>1, <2>2 DEF Parse, Emit, Goto
<1>. QED BY <1>0, <1>2, <1>3, <1>4, <1>5, <1>6, <1>7, <1>8 DEF Loop

LEMMA ManageCame == CameInv /\ Manage => CameInv'
<1>. SUFFICES ASSUME CameInv, Manage PROVE CameInv'
  OBVIOUS
<1>1. UNCHANGED <<at, rsock, inbox, packet, net, sentMsgs, arrivals>>
  BY DEF Manage, udpVars, linkVars
<1>2. Came' = Came /\ Seen' = Seen /\ Told' = Told
  BY <1>1, CameSame
<1>3. posted' \in Seq(Told) /\ shown' \in Seq(Told)
  <2>0. posted \in Seq(Told) /\ shown \in Seq(Told)
    BY DEF CameInv
  <2>1. CASE Start \/ Stop \/ Stopped
    BY <2>0, <2>1 DEF Start, Stop, Stopped
  <2>2. CASE Destroy
    <3>1. posted' = <<>> /\ shown' = shown
      BY <2>2 DEF Destroy
    <3>. QED BY <2>0, <3>1
  <2>3. CASE Deliver
    <3>1. posted # <<>> /\ posted' = Tail(posted) /\ shown' = Append(shown, Head(posted))
      BY <2>3 DEF Deliver
    <3>2. Head(posted) \in Told /\ Tail(posted) \in Seq(Told)
      BY <2>0, <3>1
    <3>. QED BY <2>0, <3>1, <3>2
  <2>. QED BY <2>1, <2>2, <2>3 DEF Manage, ManagerNext
<1>. QED BY <1>1, <1>2, <1>3 DEF CameInv, Validates

LEMMA CameStep == CameInv /\ NoneForeign /\ [Next]_vars => CameInv'
<1>. SUFFICES ASSUME CameInv, NoneForeign, [Next]_vars PROVE CameInv'
  OBVIOUS
<1>1. CASE \E m \in Msgs : Log(m)
  BY <1>1, LogCame
<1>2. CASE \E d \in net : Lose(d)
  <2>1. UNCHANGED <<posted, shown, at, rsock, inbox, packet, sentMsgs, arrivals>> /\ net' \subseteq net
    BY <1>2 DEF Lose, threadVars, udpVars
  <2>2. Came' = Came /\ Seen' = Seen /\ Told' = Told
    BY <2>1, CameSame
  <2>. QED BY <2>1, <2>2 DEF CameInv, Validates
<1>3. CASE \E d \in net \cup Foreign, r \in Configured : Arrive(d, r)
  BY <1>3, ArriveCame
<1>4. CASE Manage
  BY <1>4, ManageCame
<1>5. CASE \E r \in Configured : Receive(r)
  BY <1>5, ReceiveCame
<1>6. CASE UNCHANGED vars
  <2>1. UNCHANGED <<posted, shown, at, rsock, inbox, packet, net, sentMsgs, arrivals>>
    BY <1>6 DEF vars, threadVars, udpVars
  <2>2. Came' = Came /\ Seen' = Seen /\ Told' = Told
    BY <2>1, CameSame
  <2>. QED BY <2>1, <2>2 DEF CameInv, Validates
<1>. QED BY <1>1, <1>2, <1>3, <1>4, <1>5, <1>6 DEF Next

LEMMA LinkStart == Init => DestTypeOK /\ ThreadsSound /\ CameInv
<1>. SUFFICES ASSUME Init PROVE DestTypeOK /\ ThreadsSound /\ CameInv
  OBVIOUS
<1>1. DestTypeOK
  BY DEF Init, DestInit, DestTypeOK
<1>2. ThreadsSound
  BY DEF Init, ThreadsInit, ThreadsSound, ThreadsTypeOK
<1>3. CameInv
  <2>. DEFINE z == <<>>
  <2>1. z \in Seq(Came) /\ z \in Seq(Told)
    OBVIOUS
  <2>2. /\ inbox = [r \in Configured |-> z] /\ at = [r \in Configured |-> "top"]
        /\ rsock = [r \in Configured |-> "none"] /\ packet = [r \in Configured |-> z]
        /\ posted = z /\ shown = z /\ net = {} /\ sentMsgs = {} /\ arrivals = 0
    BY DEF Init, ThreadsInit, UdpReceiverInit
  <2>. HIDE DEF z
  <2>. QED BY <2>1, <2>2, UdpLinkAssumption DEF CameInv, Places
<1>. QED BY <1>1, <1>2, <1>3

\* Whatever the network loses, doubles and reorders, what comes out of a receiver is a
\* message that was sent; each of its fields is the one the destination wrote, the time
\* stamp too, and its body is whole or as much as fits the receiver's buffer, while the
\* sequence number never arrives: for any messages, any format of time stamps, any number
\* of receivers and any buffer that holds the prefix, if the host's name does not begin
\* with a digit and no other program sends what is taken for a message
\* (UDP_receiver.cc:108-306, UDP_mfPlugin.cc:306-440).
THEOREM WhatArrivesWasSent ==
  ASSUME NamedHost, NoneForeign
  PROVE  Spec => []ArrivalInv
<1>1. DestTypeOK /\ ThreadsSound /\ CameInv => TypeOK /\ ArrivesWhole
  <2>. SUFFICES ASSUME DestTypeOK, ThreadsSound, CameInv PROVE TypeOK /\ ArrivesWhole
    OBVIOUS
  <2>1. ThreadsTypeOK /\ UdpReceiverTypeOK
    BY DEF ThreadsSound, CameInv, Places, UdpReceiverTypeOK
  <2>2. net \subseteq {Datagram[m] : m \in Msgs} /\ arrivals \in 0 .. MaxArrivals
    BY DEF CameInv
  <2>3. TypeOK
    BY <2>1, <2>2 DEF TypeOK
  <2>4. ASSUME NEW e \in Emitted
        PROVE  \E m \in sentMsgs : IsWhole(e, m)
    <3>1. e \in Told
      BY <2>4 DEF Emitted, CameInv
    <3>4. PICK m \in sentMsgs : \E d \in Cut(Datagram[m], Room) :
            Readable(Tokens(d)) /\ e = ReadMsg(Tokens(d))
      BY <3>1 DEF Told
    <3>2. PICK d \in Cut(Datagram[m], Room) : Readable(Tokens(d)) /\ e = ReadMsg(Tokens(d))
      BY <3>4
    <3>3. m \in Msgs
      BY DEF CameInv
    <3>. QED BY <3>2, <3>3, ReadIsWhole
  <2>5. ArrivesWhole
    BY <2>4 DEF ArrivesWhole, IsWhole
  <2>. QED BY <2>3, <2>5
<1>2. CameInv /\ [Next]_vars => CameInv'
  BY CameStep
<1>3. Spec => [](DestTypeOK /\ ThreadsSound /\ CameInv)
  <2>1. /\ Init => DestTypeOK /\ ThreadsSound /\ CameInv
        /\ DestTypeOK /\ ThreadsSound /\ CameInv /\ [Next]_vars
             => (DestTypeOK /\ ThreadsSound /\ CameInv)'
    BY <1>2, LinkStart, DestStep, ThreadsStep
  <2>. QED BY <2>1, PTL DEF Spec
<1>. QED BY <1>1, <1>3, EndsMeet, PTL DEF ArrivalInv

-----------------------------------------------------------------------------
(* The powers of the factor.                                               *)

\* The recursion of Power, to n.
PowerSteps(n, f) == f[0] = 1 /\ \A i \in 1 .. n : f[i] = Backoff * f[i - 1]

LEMMA PowerIs == ASSUME NEW n \in Nat PROVE \E f : PowerSteps(n, f) /\ Power(n) = f[n]
<1>. DEFINE Q(f) == f = [i \in 0 .. n |-> IF i = 0 THEN 1 ELSE Backoff * f[i - 1]]
            c == CHOOSE f : Q(f)
            F == [i \in 1 .. n |-> [v \in Nat |-> Backoff * v]]
<1>0. Backoff \in Nat
  BY UdpDestinationAssumption
<1>1. \A i \in 1 .. n : \A v \in Nat : F[i][v] = Backoff * v /\ F[i][v] \in Nat
  BY <1>0
<1>. HIDE DEF F
<1>2. PICK f : Recursion(1, F, n, f)
  BY RecursionExists
<1>3. \A i \in 0 .. n : f[i] \in Nat
  <2>. DEFINE V == [i \in 0 .. n |-> Nat]
  <2>0. \A i \in 0 .. n : V[i] = Nat
    OBVIOUS
  <2>. HIDE DEF V
  <2>1. 1 \in V[0] /\ \A i \in 1 .. n : \A v \in V[i - 1] : F[i][v] \in V[i]
    BY <1>1, <2>0
  <2>2. \A i \in 0 .. n : f[i] \in V[i]
    BY <1>2, <2>1, RecursionInvariant
  <2>. QED BY <2>0, <2>2
<1>4. Q(f)
  <2>1. \A i \in 1 .. n : F[i][f[i - 1]] = Backoff * f[i - 1]
    BY <1>1, <1>3
  <2>2. f = [i \in 0 .. n |-> IF i = 0 THEN 1 ELSE F[i][f[i - 1]]]
    BY <1>2 DEF Recursion
  <2>3. \A i \in 0 .. n : i # 0 => i \in 1 .. n
    OBVIOUS
  <2>. QED BY <2>1, <2>2, <2>3
<1>5. Power(n) = c[n]
  BY DEF Power
<1>6. Q(c) => PowerSteps(n, c)
  <2>. DEFINE h == [i \in 0 .. n |-> IF i = 0 THEN 1 ELSE Backoff * c[i - 1]]
  <2>1. h[0] = 1
    OBVIOUS
  <2>2. ASSUME NEW i \in 1 .. n PROVE h[i] = Backoff * c[i - 1]
    <3>1. i \in 0 .. n /\ i # 0
      OBVIOUS
    <3>. QED BY <3>1
  <2>3. Q(c) => c = h
    OBVIOUS
  <2>. HIDE DEF h, Q, c
  <2>. QED BY <2>1, <2>2, <2>3 DEF PowerSteps
<1>. HIDE DEF Q
<1>7. Q(c)
  BY <1>4
<1>. QED BY <1>5, <1>6, <1>7

LEMMA PowersAgree ==
  ASSUME NEW n \in Nat, NEW f, NEW g, PowerSteps(n, f), PowerSteps(n, g)
  PROVE  f[n] = g[n] /\ f[n] \in Nat
<1>. DEFINE P == {i \in Nat : i <= n => f[i] = g[i] /\ f[i] \in Nat}
<1>0. Backoff \in Nat
  BY UdpDestinationAssumption
<1>1. 0 \in P
  BY DEF PowerSteps
<1>2. ASSUME NEW i \in Nat, i \in P PROVE i + 1 \in P
  <2>. SUFFICES ASSUME i + 1 <= n PROVE f[i + 1] = g[i + 1] /\ f[i + 1] \in Nat
    OBVIOUS
  <2>1. i + 1 \in 1 .. n /\ i + 1 - 1 = i /\ f[i] = g[i] /\ f[i] \in Nat
    BY <1>2
  <2>. QED BY <1>0, <2>1 DEF PowerSteps
<1>. HIDE DEF P
<1>3. Nat \subseteq P
  BY <1>1, <1>2, Induction
<1>. QED BY <1>3 DEF P

LEMMA PowerNext ==
  /\ Power(0) = 1
  /\ \A n \in Nat : Power(n) \in Nat /\ Power(n + 1) = Backoff * Power(n)
<1>1. Power(0) = 1
  BY PowerIs DEF PowerSteps
<1>2. ASSUME NEW n \in Nat PROVE Power(n) \in Nat /\ Power(n + 1) = Backoff * Power(n)
  <2>1. PICK f : PowerSteps(n, f) /\ Power(n) = f[n]
    BY PowerIs
  <2>2. PICK g : PowerSteps(n + 1, g) /\ Power(n + 1) = g[n + 1]
    BY PowerIs
  <2>3. PowerSteps(n, g) /\ g[n + 1] = Backoff * g[n]
    BY <2>2 DEF PowerSteps
  <2>4. f[n] = g[n] /\ f[n] \in Nat
    BY <2>1, <2>3, PowersAgree
  <2>. QED BY <2>1, <2>2, <2>3, <2>4
<1>. QED BY <1>1, <1>2

\* Powers grow, from 1 on.
LEMMA PowersGrow ==
  ASSUME Backoff >= 2
  PROVE  \A n \in Nat : \A k \in Nat : Power(n) > n /\ (k > n => Power(k) > Power(n))
<1>0. Backoff \in Nat
  BY UdpDestinationAssumption
<1>1. ASSUME NEW n \in Nat PROVE Power(n) > n
  <2>. DEFINE P == {i \in Nat : Power(i) > i}
  <2>1. 0 \in P
    BY PowerNext
  <2>2. ASSUME NEW i \in Nat, i \in P PROVE i + 1 \in P
    <3>1. Power(i) \in Nat /\ Power(i + 1) = Backoff * Power(i) /\ Power(i) > i
      BY <2>2, PowerNext
    <3>2. Backoff * Power(i) >= 2 * Power(i)
      BY <1>0, <3>1
    <3>. QED BY <1>0, <3>1, <3>2
  <2>. HIDE DEF P
  <2>3. Nat \subseteq P
    BY <2>1, <2>2, Induction
  <2>. QED BY <2>3 DEF P
<1>2. \A n \in Nat : Power(n + 1) > Power(n)
  <2>. SUFFICES ASSUME NEW n \in Nat PROVE Power(n + 1) > Power(n)
    OBVIOUS
  <2>1. Power(n) \in Nat /\ Power(n + 1) = Backoff * Power(n) /\ Power(n) > 0
    BY <1>1, PowerNext
  <2>2. Backoff * Power(n) >= 2 * Power(n)
    BY <1>0, <2>1
  <2>. QED BY <1>0, <2>1, <2>2
<1>3. ASSUME NEW n \in Nat PROVE \A k \in Nat : k > n => Power(k) > Power(n)
  <2>. DEFINE P == {k \in Nat : k > n => Power(k) > Power(n)}
  <2>1. 0 \in P
    OBVIOUS
  <2>2. ASSUME NEW k \in Nat, k \in P PROVE k + 1 \in P
    <3>1. Power(k + 1) > Power(k) /\ Power(n) \in Nat /\ Power(k) \in Nat /\ Power(k + 1) \in Nat
      BY <1>2, PowerNext
    <3>2. k > n \/ k = n \/ k + 1 <= n
      OBVIOUS
    <3>. QED BY <2>2, <3>1, <3>2
  <2>. HIDE DEF P
  <2>3. Nat \subseteq P
    BY <2>1, <2>2, Induction
  <2>. QED BY <2>3 DEF P
<1>. QED BY <1>1, <1>3

-----------------------------------------------------------------------------
(* The reports.                                                            *)

Nth(i) == Cardinality({j \in Failures : j <= i})

IsPower(n) == \E k \in Nat : n = Power(k)

\* The next report is due at the first power that the errors have not reached.
IsNext(k, next, n) == next = Power(k) /\ n < next /\ (k > 0 => Power(k - 1) <= n)

NextIsPower == \E k \in Nat : IsNext(k, nextReport, errors)

ReportsAre == \A i \in Failures : outcomes[i] = "reported" <=> IsPower(Nth(i))

ReportsInv == NextIsPower /\ ReportsAre

\* So one error more is a power exactly if it is that one.
LEMMA NextPower ==
  ASSUME Backoff >= 2, errors \in Nat, NextIsPower
  PROVE  IsPower(errors + 1) <=> errors + 1 = nextReport
<1>1. PICK k \in Nat : IsNext(k, nextReport, errors)
  BY DEF NextIsPower
<1>. USE DEF IsNext
<1>2. ASSUME NEW l \in Nat, errors + 1 = Power(l) PROVE l = k
  <2>0. Power(l) \in Nat /\ Power(k) \in Nat
    BY PowerNext
  <2>1. ~(l > k)
    <3>1. l > k => Power(l) > Power(k)
      BY PowersGrow
    <3>. QED BY <1>1, <1>2, <2>0, <3>1
  <2>2. ~(k > l)
    <3>. SUFFICES ASSUME k > l PROVE FALSE
      OBVIOUS
    <3>. DEFINE j == k - 1
    <3>1. j \in Nat /\ (j > l \/ j = l)
      OBVIOUS
    <3>. HIDE DEF j
    <3>2. Power(j) \in Nat
      BY <3>1, PowerNext
    <3>3. j > l => Power(j) > Power(l)
      BY <3>1, PowersGrow
    <3>4. Power(j) >= Power(l)
      BY <3>1, <3>2, <3>3, <2>0
    <3>. QED BY <1>1, <1>2, <2>0, <3>2, <3>4 DEF j
  <2>. QED BY <2>1, <2>2
<1>. QED BY <1>1, <1>2 DEF IsPower

\* The failures before it say which one a failure is.
LEMMA NthKept ==
  ASSUME outcomes \in Seq(Outcome), NEW i \in Failures,
         Failures' = Failures \/ Failures' = Failures \cup {Len(outcomes) + 1}
  PROVE  Nth(i)' = Nth(i)
<1>1. i \in 1 .. Len(outcomes) /\ Len(outcomes) \in Nat
  BY FailuresFinite
<1>2. {j \in Failures' : j <= i} = {j \in Failures : j <= i}
  BY <1>1
<1>. QED BY <1>2 DEF Nth

LEMMA ReportsKept ==
  ASSUME outcomes \in Seq(Outcome), ReportsAre, Failures' = Failures,
         NEW o, outcomes' = Append(outcomes, o)
  PROVE  ReportsAre'
<1>. SUFFICES ASSUME NEW i \in Failures
              PROVE  outcomes'[i] = "reported" <=> IsPower(Nth(i)')
  BY DEF ReportsAre, IsPower
<1>1. Nth(i)' = Nth(i)
  BY NthKept
<1>2. outcomes'[i] = outcomes[i]
  BY FailuresFinite
<1>. QED BY <1>1, <1>2 DEF ReportsAre

LEMMA FailReports ==
  ASSUME Backoff >= 2, CountersInv, ReportsInv, IsOn, SendFails, CountersInv'
  PROVE  ReportsInv'
<1>0. /\ outcomes \in Seq(Outcome) /\ errors \in Nat /\ errors = Cardinality(Failures)
      /\ errors' = Cardinality(Failures') /\ Backoff \in Nat
  BY UdpDestinationAssumption DEF CountersInv
<1>. DEFINE n == Len(outcomes) + 1
<1>1. PICK o \in {"failed", "reported"} :
        /\ outcomes' = Append(outcomes, o) /\ errors' = errors + 1
        /\ o = "reported" <=> errors + 1 = nextReport
        /\ nextReport' = IF errors + 1 = nextReport THEN nextReport * Backoff ELSE nextReport
  BY DEF SendFails
<1>2. Failures' = Failures \cup {n}
  <2>1. o \in Outcome /\ o # "sent"
    BY DEF Outcome
  <2>2. Failures' = Failures \cup (IF o \in {"failed", "reported"} THEN {n} ELSE {})
    BY <1>0, <1>1, <2>1, NotCalm
  <2>. QED BY <2>2
<1>3. Failures \subseteq 1 .. n - 1 /\ n \in Nat
  BY <1>0, FailuresFinite
<1>4. NextIsPower'
  <2>1. PICK k \in Nat : IsNext(k, nextReport, errors)
    BY DEF ReportsInv, NextIsPower
  <2>2. Power(k) \in Nat /\ Power(k + 1) = Backoff * Power(k) /\ Power(k + 1) \in Nat
        /\ Power(k + 1) > Power(k)
    BY PowerNext, PowersGrow
  <2>3. CASE errors + 1 = nextReport
    <3>1. nextReport' = Power(k + 1) /\ errors' = Power(k) /\ k + 1 - 1 = k
      BY <1>0, <1>1, <2>1, <2>2, <2>3 DEF IsNext
    <3>2. IsNext(k + 1, nextReport', errors')
      BY <2>2, <3>1 DEF IsNext
    <3>3. k + 1 \in Nat
      OBVIOUS
    <3>. QED BY <3>2, <3>3 DEF NextIsPower
  <2>4. CASE errors + 1 # nextReport
    <3>1. nextReport' = Power(k) /\ errors' < Power(k)
      BY <1>0, <1>1, <2>1, <2>2, <2>4 DEF IsNext
    <3>2. k > 0 => Power(k - 1) <= errors'
      <4>1. k > 0 => k - 1 \in Nat
        OBVIOUS
      <4>2. k > 0 => Power(k - 1) \in Nat
        BY <4>1, PowerNext
      <4>. QED BY <1>0, <1>1, <2>1, <4>2 DEF IsNext
    <3>3. IsNext(k, nextReport', errors')
      BY <3>1, <3>2 DEF IsNext
    <3>. QED BY <3>3 DEF NextIsPower
  <2>. QED BY <2>3, <2>4
<1>5. ASSUME NEW i \in Failures' PROVE outcomes'[i] = "reported" <=> IsPower(Nth(i)')
  <2>1. CASE i \in Failures
    <3>1. Nth(i)' = Nth(i)
      BY <1>0, <1>2, <2>1, NthKept
    <3>2. outcomes'[i] = outcomes[i]
      BY <1>0, <1>1, <1>3, <2>1
    <3>. QED BY <2>1, <3>1, <3>2 DEF ReportsInv, ReportsAre
  <2>2. CASE i = n
    <3>1. {j \in Failures' : j <= i} = Failures'
      <4>1. \A j \in 1 .. n - 1 : j <= n
        BY <1>3
      <4>2. n <= n
        BY <1>3
      <4>. HIDE DEF n
      <4>3. \A j \in Failures' : j <= i
        BY <1>2, <1>3, <2>2, <4>1, <4>2
      <4>. QED BY <4>3
    <3>2. Nth(i)' = errors + 1
      BY <1>0, <1>1, <3>1 DEF Nth
    <3>3. outcomes'[i] = o
      BY <1>0, <1>1, <2>2
    <3>4. IsPower(errors + 1) <=> errors + 1 = nextReport
      BY <1>0, NextPower DEF ReportsInv
    <3>. QED BY <1>1, <3>2, <3>3, <3>4
  <2>. QED BY <1>2, <2>1, <2>2
<1>6. ReportsAre'
  BY <1>5 DEF ReportsAre, IsPower, Power
<1>. QED BY <1>4, <1>6 DEF ReportsInv

LEMMA SuccessReports ==
  ASSUME Backoff >= 2, CountersInv, ReportsInv, IsOn, SendSucceeds
  PROVE  ReportsInv'
<1>0. outcomes \in Seq(Outcome) /\ successes \in Nat /\ Calm \in Nat
  BY UdpDestinationAssumption DEF CountersInv
<1>1. CASE successes' >= Calm /\ errors' = 0 /\ nextReport' = 1
  <2>1. Failures' = {}
    BY <1>1, SuccessFailures
  <2>2. NextIsPower'
    <3>1. Power(0) = 1 /\ 0 \in Nat /\ ~(0 > 0) /\ 0 < 1
      BY PowerNext
    <3>2. IsNext(0, nextReport', errors')
      BY <1>1, <3>1 DEF IsNext
    <3>. QED BY <3>1, <3>2 DEF NextIsPower
  <2>. QED BY <2>1, <2>2 DEF ReportsInv, ReportsAre
<1>2. CASE successes' < Calm /\ UNCHANGED <<errors, nextReport>>
  <2>1. Failures' = Failures
    BY <1>2, SuccessFailures
  <2>2. outcomes' = Append(outcomes, "sent")
    BY DEF SendSucceeds
  <2>3. ReportsAre'
    BY <1>0, <2>1, <2>2, ReportsKept DEF ReportsInv
  <2>. QED BY <1>2, <2>3 DEF ReportsInv, NextIsPower, IsNext, Power
<1>. QED BY <1>1, <1>2 DEF SendSucceeds

LEMMA ReportsStep ==
  Backoff >= 2 /\ CountersInv /\ ReportsInv /\ [Next]_vars => ReportsInv'
<1>. SUFFICES ASSUME Backoff >= 2, CountersInv, ReportsInv, [Next]_vars PROVE ReportsInv'
  OBVIOUS
<1>1. CountersInv'
  BY CountersStep
<1>2. CASE UNCHANGED <<errors, nextReport, outcomes>>
  <2>1. Failures' = Failures
    BY <1>2 DEF Failures, Recent, Failed
  <2>. QED BY <1>2, <2>1 DEF ReportsInv, NextIsPower, IsNext, ReportsAre, Nth, IsPower, Power
<1>3. ASSUME NEW m, NEW out, Route(m, out) PROVE ReportsInv'
  <2>1. CASE IsOn /\ SendFails
    BY <1>1, <2>1, FailReports
  <2>2. CASE IsOn /\ SendSucceeds
    BY <2>2, SuccessReports
  <2>3. CASE outcomes' = Append(outcomes, "off") /\ UNCHANGED <<errors, successes, nextReport>>
    <3>1. outcomes \in Seq(Outcome) /\ "off" \in Outcome
      BY DEF CountersInv, Outcome
    <3>2. Failures' = Failures \cup (IF "off" \in {"failed", "reported"}
                                     THEN {Len(outcomes) + 1} ELSE {})
      BY <2>3, <3>1, NotCalm
    <3>3. ReportsAre'
      BY <2>3, <3>1, <3>2, ReportsKept DEF ReportsInv
    <3>. QED BY <2>3, <3>3 DEF ReportsInv, NextIsPower, IsNext, Power
  <2>. QED BY <1>2, <1>3, <2>1, <2>2, <2>3 DEF Route
<1>4. UNCHANGED destVars \/ \E m \in Msgs : Log(m)
  BY DEF Next, Lose, Arrive, Manage, Receive, vars
<1>. QED BY <1>2, <1>3, <1>4 DEF Log, destVars

\* The failures that are reported are the first, and those that are a power of the
\* factor, counted anew since sending last worked for a while, for any factor from two
\* on, any threshold and any number of messages (UDP_mfPlugin.cc:383-419).
THEOREM ReportsGetRare == Spec => []ReportsThinOut
<1>1. ASSUME Backoff >= 2, CountersInv, ReportsInv, NEW i \in Failures
      PROVE  outcomes[i] = "reported" <=> \E k \in 0 .. Nth(i) : Nth(i) = Power(k)
  <2>1. outcomes[i] = "reported" <=> IsPower(Nth(i))
    BY <1>1 DEF ReportsInv, ReportsAre
  <2>2. Nth(i) \in Nat
    <3>1. IsFiniteSet(Failures)
      BY <1>1, FailuresFinite DEF CountersInv
    <3>2. IsFiniteSet({j \in Failures : j <= i})
      BY <3>1, FS_Subset
    <3>. QED BY <3>2, FS_CardinalityType DEF Nth
  <2>3. ASSUME NEW k \in Nat, Nth(i) = Power(k) PROVE k \in 0 .. Nth(i)
    <3>1. Power(k) > k
      BY <1>1, PowersGrow
    <3>. QED BY <2>2, <2>3, <3>1
  <2>. QED BY <2>1, <2>2, <2>3 DEF IsPower
<1>2. CountersInv /\ (Backoff >= 2 => ReportsInv) => ReportsThinOut
  BY <1>1 DEF ReportsThinOut, Failures, Nth
<1>3. Init => ReportsInv
  <2>. SUFFICES ASSUME Init PROVE ReportsInv
    OBVIOUS
  <2>1. outcomes = <<>> /\ errors = 0 /\ nextReport = 1
    BY DEF Init, DestInit
  <2>2. Failures = {}
    BY <2>1 DEF Failures, Recent
  <2>3. Power(0) = 1 /\ 0 \in Nat /\ ~(0 > 0) /\ 0 < 1
    BY PowerNext
  <2>4. IsNext(0, nextReport, errors)
    BY <2>1, <2>3 DEF IsNext
  <2>. QED BY <2>2, <2>3, <2>4 DEF ReportsInv, NextIsPower, ReportsAre
<1>4. CountersInv /\ (Backoff >= 2 => ReportsInv) /\ [Next]_vars
        => CountersInv' /\ (Backoff >= 2 => ReportsInv')
  BY CountersStep, ReportsStep
<1>5. Spec => [](CountersInv /\ (Backoff >= 2 => ReportsInv))
  <2>1. Init => CountersInv /\ (Backoff >= 2 => ReportsInv)
    BY <1>3, CountersStart
  <2>2. CountersInv /\ (Backoff >= 2 => ReportsInv) /\ [Next]_vars
          => (CountersInv /\ (Backoff >= 2 => ReportsInv))'
    BY <1>4
  <2>. QED BY <2>1, <2>2, PTL DEF Spec
<1>. QED BY <1>2, <1>5, PTL
==============================================================================
