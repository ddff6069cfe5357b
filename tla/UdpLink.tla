------------------------------- MODULE UdpLink -------------------------------
(***************************************************************************)
(* A program that logs through a UDP destination, a viewer with UDP        *)
(* receivers, and the network between them, which may lose, double and     *)
(* reorder datagrams, and carries those of other programs.                 *)
(***************************************************************************)
EXTENDS UdpDestination, UdpReceiver

CONSTANTS
  Foreign,      \* what other programs send to the receivers' port
  BufferSize,   \* datagrams a socket's buffer holds
  MaxArrivals   \* bounds the datagrams that arrive

\* The buffer holds the parts before the body.
ASSUME UdpLinkAssumption ==
  /\ Room \in Nat /\ Room > Len(Prefix)
  /\ Incoming = Foreign \cup {Datagram[m] : m \in Msgs}
  /\ BufferSize \in Nat /\ MaxArrivals \in Nat

VARIABLES
  net,          \* the destination's datagrams under way
  sentMsgs,     \* the messages sent so far
  arrivals      \* the number of datagrams that have reached a socket

vars == <<destVars, threadVars, udpVars, net, sentMsgs, arrivals>>
linkVars == <<net, sentMsgs, arrivals>>

TypeOK ==
  /\ DestTypeOK /\ ThreadsTypeOK /\ UdpReceiverTypeOK
  /\ net \subseteq {Datagram[m] : m \in Msgs}
  /\ arrivals \in 0 .. MaxArrivals

Init ==
  /\ DestInit /\ ThreadsInit /\ UdpReceiverInit
  /\ net = {}
  /\ sentMsgs = {}
  /\ arrivals = 0

Log(m) ==
  /\ \E out \in {{}, {Datagram[m]}} :
       /\ Route(m, out)
       /\ net' = net \cup out
       /\ sentMsgs' = IF out = {} THEN sentMsgs ELSE sentMsgs \cup {m}
  /\ UNCHANGED <<threadVars, udpVars, arrivals>>

Lose(d) ==
  /\ d \in net
  /\ net' = net \ {d}
  /\ UNCHANGED <<destVars, threadVars, udpVars, sentMsgs, arrivals>>

\* The destination's datagrams go to the socket of r.
Reaches(r) ==
  /\ target.port = RecvPort
  /\ joined[r] \in {NoAddress, target.address}

\* A datagram comes to a socket; it stays under way, as if it had been doubled.
Arrive(d, r) ==
  /\ rsock[r] = "open"
  /\ arrivals < MaxArrivals
  /\ d \in Foreign \/ (d \in net /\ Reaches(r))
  /\ Len(inbox[r]) < BufferSize
  /\ arrivals' = arrivals + 1
  /\ inbox' = [inbox EXCEPT ![r] = Append(@, d)]
  /\ UNCHANGED <<destVars, threadVars, at, rsock, joined, packet, net, sentMsgs>>

Manage == ManagerNext /\ UNCHANGED <<destVars, udpVars, linkVars>>

Receive(r) == Loop(r) /\ UNCHANGED <<destVars, linkVars>>

Next ==
  \/ \E m \in Msgs : Log(m)
  \/ \E d \in net : Lose(d)
  \/ \E d \in net \cup Foreign, r \in Configured : Arrive(d, r)
  \/ Manage
  \/ \E r \in Configured : Receive(r)

\* The receivers' threads run, and so does the GUI thread once it has begun to
\* stop them.
Spec ==
  /\ Init /\ [][Next]_vars
  /\ \A r \in Configured : WF_vars(Receive(r))
  /\ WF_vars(Stopped /\ UNCHANGED <<destVars, udpVars, linkVars>>)

-----------------------------------------------------------------------------
Emitted == {posted[i] : i \in DOMAIN posted} \cup {shown[i] : i \in DOMAIN shown}

\* The bodies a viewer may get of a message: without a '|' at the very end, and, of
\* one that is too long for the receiver's buffer, the beginning that there was room
\* for behind the tag and the prefix.
Bodies(m) == {Tokens(b) : b \in Cut(Body(m), Room - Len(Prefix) - 1)}

\* Whatever the network does to the datagrams, each message that comes out of a
\* receiver is one that was sent, and every part of it is the part of that name that
\* the destination wrote, the time stamp too, although messages, categories and
\* programs' names may contain the character that separates the parts, and bodies may
\* look like numbers.  The body is whole if the datagram fits the receiver's buffer, and
\* what fits of it otherwise.  The sequence number never arrives: read_msg() looks for it
\* one token too late, at the host's name, and passes over it.
ArrivesWhole ==
  \A e \in Emitted :
    \E m \in sentMsgs :
      /\ e.body \in Bodies(m)
      /\ e.seq = Absent
      /\ \A f \in DOMAIN e \ {"body", "seq"} : e[f].of = f /\ e[f].part = 1

\* A destination and a receiver with the same address and port in their
\* configurations meet, however often the receiver has had to set up its socket
\* again: they agree on the port and, with multicast, on the group.
SameGroup ==
  /\ HostSpec = RecvSpec /\ Port = RecvPort /\ HostSpec.form \in {"host", "other"}
  /\ sock = "open" /\ proc = "up"
  => \A r \in running :
       rsock[r] = "open" =>
         /\ target.port = RecvPort
         /\ RecvMulticast /\ ~Listens.skips => joined[r] = target.address

\* No thread is kept by a datagram: one that was taken from the socket leaves
\* the receiver as a message.
TakenIsEmitted ==
  \A r \in Configured :
    packet[r] # <<>> /\ at[r] = "parse" ~>
      packet[r] = <<>> \/ manager = "exited"

\* The state is sound, and what arrives comes from one sender, whole
\* (UDP_receiver.cc:81-306, UDP_mfPlugin.cc:290-440).
ArrivalInv == TypeOK /\ ArrivesWhole /\ SameGroup
=============================================================================
