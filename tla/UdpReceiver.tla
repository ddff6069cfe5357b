----------------------------- MODULE UdpReceiver -----------------------------
(***************************************************************************)
(* The UDP receiver (UDP_receiver.cc): a thread that polls a socket and    *)
(* turns each datagram into a message.  Datagrams are sequences of pieces  *)
(* as in UdpDestination; HasMark says which contain "MF".                  *)
(***************************************************************************)
EXTENDS ReceiverThreads, NetAddress

CONSTANTS
  RecvPort,             \* message_port_
  RecvSpec,             \* message_addr_
  RecvMulticast, RecvOutSpec,   \* multicast_enable_, multicast_out_addr_
  Room,                 \* the whole pieces that TRACE_STREAMER_MSGMAX bytes hold
  HasMark(_),           \* whether a datagram contains "MF"
  Incoming              \* the datagrams that may come to the port

VARIABLES
  at,       \* at[r]: where the thread of r is in run()
  rsock,    \* rsock[r]: message_socket_
  joined,   \* joined[r]: the multicast group the socket has joined
  inbox,    \* inbox[r]: the datagrams in the socket's buffer
  packet    \* packet[r]: the datagram read last

udpVars == <<at, rsock, joined, inbox, packet>>

UdpReceiverInit ==
  /\ at = [r \in Configured |-> "top"]
  /\ rsock = [r \in Configured |-> "none"]
  /\ joined = [r \in Configured |-> NoAddress]
  /\ inbox = [r \in Configured |-> <<>>]
  /\ packet = [r \in Configured |-> <<>>]

UdpReceiverTypeOK ==
  /\ at \in [Configured -> {"top", "poll", "read", "parse", "stuck"}]
  /\ rsock \in [Configured -> {"none", "open"}]

-----------------------------------------------------------------------------
(* read_msg().  Positions are those of the code's iterator: Len + 1 is the *)
(* end, and an iterator at the end stays there.                            *)

\* tokenize_(): an empty piece at the end of the datagram gives no token.
Tokens(d) == IF Last(d).look = "empty" THEN Front(d) ELSE d

\* strptime() succeeds at some digit of the token.
IsTime(t) == t.look = "time"

\* Mutation: the digit at the front is not erased.
SearchEndsNot(t) == t.look \in {"time", "empty"}

\* The search for a time stamp ends: digits are erased from the front until the
\* token is empty, and nothing is erased from a token without a digit.
SearchEnds(t) == t.look \in {"time", "number", "tag", "empty"}

\* stoi() and stol() do not throw.
IsNumber(t) == t.look \in {"time", "number", "mixed"}

StampAt(ts) == SelectInSeq(ts, IsTime)

\* The search comes to an end.
Readable(ts) ==
  LET last == IF StampAt(ts) = 0 THEN Len(ts) ELSE StampAt(ts)
  IN  \A i \in 1 .. last : SearchEnds(ts[i])

\* A part that is not found, and one that is never written: tm is uninitialized
\* when no time stamp is found, and the message's time is any.
Absent == [of |-> "none", part |-> 0, look |-> "empty"]
Arbitrary == [of |-> "any", part |-> 0, look |-> "time"]

\* Mutation: the iterator is not put back after a token that is no number.
NumberAtAlways(ts, it) == IF it <= Len(ts) THEN it + 1 ELSE it

\* Advance to a token that should be a number; if it is none, back to where the
\* iterator was.
NumberAt(ts, it) ==
  IF it >= Len(ts) THEN Len(ts) + 1
  ELSE IF IsNumber(ts[it + 1]) THEN it + 1 ELSE it

\* The token n places after the iterator.
After(ts, it, n) == IF it + n <= Len(ts) THEN ts[it + n] ELSE Absent

ReadMsg(ts) ==
  LET start == IF StampAt(ts) = 0 THEN Len(ts) + 1 ELSE StampAt(ts) + 1
      seq == NumberAt(ts, start)
      app == seq + 5
      pid == NumberAt(ts, app)
  IN  [stamp |-> IF StampAt(ts) = 0 THEN Arbitrary ELSE ts[StampAt(ts)],
       seq |-> IF seq <= Len(ts) /\ seq # start THEN ts[seq] ELSE Absent,
       hostname |-> After(ts, seq, 1), hostaddr |-> After(ts, seq, 2),
       sev |-> After(ts, seq, 3),      id |-> After(ts, seq, 4),
       app |-> After(ts, seq, 5),
       pid |-> IF pid <= Len(ts) /\ pid # app THEN ts[pid] ELSE Absent,
       iteration |-> After(ts, pid, 1), module |-> After(ts, pid, 2),
       file |-> After(ts, pid, 3),      line |-> After(ts, pid, 4),
       body |-> SubSeq(ts, pid + 5, Len(ts))]

\* What the beginning of a piece may look like.
Beginnings(look) ==
  CASE look = "time" -> {"empty", "number", "tag", "mixed", "word", "time"}
    [] look = "mixed" -> {"empty", "number", "mixed"}
    [] look \in {"tag", "word"} -> {"empty", "word", "tag"}
    [] OTHER -> {"empty", look}

\* The pieces as far as there is room for: what read() returns of a datagram that
\* is longer than the buffer ends in a beginning of the piece that is cut.
Cut(d, room) ==
  IF Len(d) <= room THEN {d}
  ELSE {Append(SubSeq(d, 1, room), [d[room + 1] EXCEPT !.look = l]) :
          l \in Beginnings(d[room + 1].look)}

\* What read_msg() makes of each datagram whose time stamp search ends.
MsgOf ==
  [d \in {d \in UNION {Cut(whole, Room) : whole \in Incoming} : Readable(Tokens(d))} |->
     ReadMsg(Tokens(d))]

-----------------------------------------------------------------------------
(* run().                                                                  *)

Goto(r, pc) == at' = [at EXCEPT ![r] = pc]

\* The loop's condition is false.
Leave(r) ==
  /\ r \in running
  /\ at[r] = "top"
  /\ stopRequested[r]
  /\ Return(r)
  /\ UNCHANGED <<receivers, stopRequested, manager, posted, shown, udpVars>>

Listens ==
  [group |-> ResolveHost(RecvSpec),
   skips |-> RecvSpec.form = "host" /\ RecvSpec.host = "localhost"]

\* setupMessageListener_(): TRUE if everything it asks for is granted, with
\* ok = FALSE for a system call that fails.
SetUpSucceeds(ok) ==
  /\ ok
  /\ RecvMulticast /\ ~Listens.skips =>
       /\ Listens.group # NoAddress
       /\ GetInterfaceForNetwork(RecvOutSpec) # NoAddress

\* The listener is set up where there is none.
Top(r) ==
  /\ r \in running
  /\ at[r] = "top"
  /\ ~stopRequested[r]
  /\ \/ rsock[r] = "open" /\ UNCHANGED <<rsock, joined>>
     \/ /\ rsock[r] = "none"
        /\ SetUpSucceeds(TRUE)
        /\ rsock' = [rsock EXCEPT ![r] = "open"]
        /\ joined' = [joined EXCEPT ![r] = IF RecvMulticast /\ ~Listens.skips
                                           THEN Listens.group ELSE NoAddress]
  /\ Goto(r, "poll")
  /\ UNCHANGED <<threadVars, inbox, packet>>

\* A listener that cannot be set up ends the process.
TopExits(r) ==
  /\ r \in running
  /\ at[r] = "top"
  /\ ~stopRequested[r]
  /\ rsock[r] = "none"
  /\ \E ok \in BOOLEAN : ~SetUpSucceeds(ok)
  /\ Exit
  /\ UNCHANGED udpVars

\* poll() reports data.
PollData(r) ==
  /\ r \in running /\ at[r] = "poll"
  /\ inbox[r] # <<>>
  /\ Goto(r, "read")
  /\ UNCHANGED <<threadVars, rsock, joined, inbox, packet>>

\* poll() times out, or fails.
PollNothing(r) ==
  /\ r \in running /\ at[r] = "poll"
  /\ inbox[r] = <<>>
  /\ Goto(r, "top")
  /\ UNCHANGED <<threadVars, rsock, joined, inbox, packet>>

\* poll() reports an error: the socket is closed, with what was in its buffer.
PollError(r) ==
  /\ r \in running /\ at[r] = "poll"
  /\ rsock' = [rsock EXCEPT ![r] = "none"]
  /\ inbox' = [inbox EXCEPT ![r] = <<>>]
  /\ joined' = [joined EXCEPT ![r] = NoAddress]
  /\ Goto(r, "top")
  /\ UNCHANGED <<threadVars, packet>>

\* validate_packet(): "MF" and a '|'.
Validates(d) == HasMark(d) /\ Len(d) > 1

\* read() returns a datagram, as far as it has room for it, or fails; one that does
\* not validate is dropped.
Read(r) ==
  /\ r \in running /\ at[r] = "read"
  /\ \/ /\ inbox' = [inbox EXCEPT ![r] = Tail(@)]
        /\ \E d \in Cut(Head(inbox[r]), Room) :
             \/ Validates(d) /\ packet' = [packet EXCEPT ![r] = d] /\ Goto(r, "parse")
             \/ ~Validates(d) /\ UNCHANGED packet /\ Goto(r, "top")
     \/ Goto(r, "top") /\ UNCHANGED <<inbox, packet>>
  /\ UNCHANGED <<threadVars, rsock, joined>>

\* read_msg() and the signal; the thread does not come back from a datagram whose
\* search for a time stamp does not end.
Parse(r) ==
  /\ r \in running /\ at[r] = "parse"
  /\ \/ /\ packet[r] \in DOMAIN MsgOf
        /\ Emit(MsgOf[packet[r]])
        /\ Goto(r, "top")
        /\ packet' = [packet EXCEPT ![r] = <<>>]
     \/ /\ packet[r] \notin DOMAIN MsgOf
        /\ Goto(r, "stuck")
        /\ UNCHANGED <<posted, packet>>
  /\ UNCHANGED <<receivers, stopRequested, running, manager, shown, rsock, joined, inbox>>

Loop(r) ==
  \/ Leave(r) \/ Top(r) \/ TopExits(r) \/ PollData(r) \/ PollNothing(r)
  \/ PollError(r) \/ Read(r) \/ Parse(r)
=============================================================================
