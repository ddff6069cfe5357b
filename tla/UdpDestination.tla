---------------------------- MODULE UdpDestination ----------------------------
(***************************************************************************)
(* The UDP destination (UDP_mfPlugin.cc): one logging thread formats a     *)
(* message and sends it in one datagram, counting errors.  The message     *)
(* facility calls a destination for one message at a time.                 *)
(*                                                                         *)
(* A datagram is the sequence of its pieces between the '|' characters.  A *)
(* piece says which part of the message it comes from and what it looks    *)
(* like to a parser:                                                       *)
(*   "time"    a time stamp of the default format                          *)
(*   "number"  digits                                                      *)
(*   "tag"     starts with a letter and ends with digits                   *)
(*   "mixed"   starts with a digit and ends with a letter                  *)
(*   "word"    has something after its last digit, if any                  *)
(*   "empty"   nothing                                                     *)
(***************************************************************************)
EXTENDS NetAddress, FiniteSets

CONSTANTS
  Msgs,         \* the messages: the pieces of the body of each
  HostLook,     \* what the host's name looks like
  StampLook,    \* what the configured format of time stamps looks like
  OwnName,      \* gethostname()
  HostSpec, Port,           \* host_, port_
  Multicast, OutSpec,       \* multicast_enabled_, multicast_out_addr_
  ErrorMax,     \* error_max_, 0 for no limit
  Backoff,      \* error_report_backoff_factor_
  Calm,         \* successes in a row that clear the errors: 5 in the code
  MaxAttempts   \* bounds the number of messages

Looks == {"time", "number", "tag", "mixed", "word", "empty"}

ASSUME UdpDestinationAssumption ==
  /\ \A m \in Msgs : m.body \in Seq(Looks) \ {<<>>}
  /\ HostLook \in Looks /\ StampLook \in Looks
  /\ ErrorMax \in Nat /\ Backoff \in Nat /\ MaxAttempts \in Nat
  /\ Calm \in Nat \ {0}

VARIABLES
  proc,         \* whether the process is "up" or has "exited"
  sock,         \* message_socket_: "none" or "open"
  target,       \* message_addr_
  group,        \* the interface of outgoing multicasts
  errors,       \* error_count_
  successes,    \* consecutive_success_count_
  nextReport,   \* next_error_report_
  outcomes      \* what became of the messages so far: "sent", "failed", "reported"
                \* (failed, and the failure was printed) or "off"

destVars == <<proc, sock, target, group, errors, successes, nextReport, outcomes>>

DestTypeOK ==
  /\ proc \in {"up", "exited"}
  /\ sock \in {"none", "open"}
  /\ errors \in Nat /\ successes \in Nat /\ nextReport \in Nat
  /\ outcomes \in Seq({"sent", "failed", "reported", "off"})

NoTarget == [address |-> NoAddress, port |-> 0]

DestInit ==
  /\ proc = "up"
  /\ sock = "none"
  /\ target = NoTarget
  /\ group = NoAddress
  /\ errors = 0
  /\ successes = 0
  /\ nextReport = 1
  /\ outcomes = <<>>

-----------------------------------------------------------------------------
(* The datagram: fillPrefix(), fillUsrMsg() and the tag of routePayload(). *)

Piece(of, look) == [of |-> of, part |-> 1, look |-> look]

\* The category, the application or the module, which may have any name: '|' becomes
\* '!', so that it is one piece.
Cleaned(p) == <<Piece(p, "word")>>

\* The module facility's own string for the run and event is "word".
Prefix ==
  <<Piece("stamp", StampLook), Piece("seq", "number"), Piece("hostname", HostLook),
    Piece("hostaddr", "number"), Piece("sev", "word")>>
  \o Cleaned("id") \o Cleaned("app")
  \o <<Piece("pid", "number"), Piece("iteration", "word")>>
  \o Cleaned("module")
  \o <<Piece("file", "word"), Piece("line", "number")>>

Body(m) == [i \in DOMAIN m.body |-> [of |-> "body", part |-> i, look |-> m.body[i]]]

Datagram == [m \in Msgs |-> <<Piece("tag", "tag")>> \o Prefix \o Body(m)]

-----------------------------------------------------------------------------
(* routePayload().                                                         *)

\* multicast_out_addr_ after reconnect_() has replaced 0.0.0.0 by the host's name.
OutInterface ==
  IF OutSpec.form = "host" /\ OutSpec.host = AnyAddress
  THEN [OutSpec EXCEPT !.host = OwnName] ELSE OutSpec

SkipsInterface == OutSpec.form = "host" /\ OutSpec.host = "localhost"

\* reconnect_(): any failure, of a name or (ok = FALSE) of a system call, ends
\* the process.
Reconnect(ok) ==
  LET to == ResolveHostPort(HostSpec, Port)
      via == GetInterfaceForNetwork(OutInterface)
      usesVia == Multicast /\ ~SkipsInterface
  IN  /\ sock' = "open"
      /\ target' = to
      /\ group' = IF usesVia THEN via ELSE group
      /\ proc' = IF /\ ok
                    /\ to.address # NoAddress
                    /\ usesVia => via # NoAddress
                 THEN proc ELSE "exited"

\* Mutation: one error more is tolerated.
IsOnLonger == errors <= ErrorMax \/ ErrorMax = 0

\* The destination has not turned itself off.
IsOn == errors < ErrorMax \/ ErrorMax = 0

\* sendto() fails.
SendFails ==
  /\ errors' = errors + 1
  /\ successes' = 0
  /\ \/ /\ errors' = nextReport
        /\ nextReport' = nextReport * Backoff
        /\ outcomes' = Append(outcomes, "reported")
     \/ /\ errors' # nextReport
        /\ outcomes' = Append(outcomes, "failed")
        /\ UNCHANGED nextReport

\* Mutation: the distance of the reports is kept.
SendSucceedsOnly ==
  /\ successes' = successes + 1
  /\ errors' = IF successes' >= Calm THEN 0 ELSE errors
  /\ UNCHANGED nextReport
  /\ outcomes' = Append(outcomes, "sent")

\* sendto() succeeds, which says nothing of the receivers.
SendSucceeds ==
  /\ successes' = successes + 1
  /\ \/ successes' >= Calm /\ errors' = 0 /\ nextReport' = 1
     \/ successes' < Calm /\ UNCHANGED <<errors, nextReport>>
  /\ outcomes' = Append(outcomes, "sent")

\* One message, of which the network gets the datagrams out.
Route(m, out) ==
  /\ proc = "up"
  /\ Len(outcomes) < MaxAttempts
  /\ \/ sock = "none" /\ \E ok \in BOOLEAN : Reconnect(ok)
     \/ sock = "open" /\ UNCHANGED <<proc, sock, target, group>>
  /\ \/ proc' = "exited" /\ out = {} /\ UNCHANGED <<errors, successes, nextReport, outcomes>>
     \/ proc' = "up" /\ IsOn /\ SendFails /\ out = {}
     \/ proc' = "up" /\ IsOn /\ SendSucceeds /\ out = {Datagram[m]}
     \/ /\ proc' = "up" /\ ~IsOn /\ out = {}
        /\ outcomes' = Append(outcomes, "off")
        /\ UNCHANGED <<errors, successes, nextReport>>

-----------------------------------------------------------------------------
(* Properties of the destination alone.                                    *)

Failed(i) == outcomes[i] \in {"failed", "reported"}

\* The messages after the last one that ended Calm or more successes in a row.
Recent ==
  LET calm == {i \in DOMAIN outcomes :
                 i >= Calm /\ \A j \in i - Calm + 1 .. i : outcomes[j] = "sent"}
  IN  {i \in DOMAIN outcomes : \A j \in calm : j < i}

\* A message is dropped without an attempt only when as many attempts as
\* error_turnoff_threshold says have failed since sending last worked for Calm
\* messages in a row; routePayload() keeps counters in place of the history.
OffMeansErrors ==
  (\E i \in DOMAIN outcomes : outcomes[i] = "off") =>
    /\ ErrorMax > 0
    /\ Cardinality({j \in Recent : Failed(j)}) = ErrorMax

Power(k) ==
  LET p[i \in 0 .. k] == IF i = 0 THEN 1 ELSE Backoff * p[i - 1]
  IN  p[k]

\* With a factor of two or more, the failures that were printed are those whose
\* number is a power of the factor: reports get rarer and rarer, and start again after
\* sending has worked.  The description of the parameter says otherwise, "Print an error
\* message every N errors" (UDP_mfPlugin.cc:52-54): the code multiplies the number of
\* the next failure to report by N where that would add N (402-406).
ReportsThinOut ==
  LET failures == {i \in Recent : Failed(i)}
      nth(i) == Cardinality({j \in failures : j <= i})
  IN  Backoff >= 2 =>
        \A i \in failures :
          (outcomes[i] = "reported") <=> \E k \in 0 .. nth(i) : nth(i) = Power(k)
=============================================================================
