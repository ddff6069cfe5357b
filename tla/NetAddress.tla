------------------------------ MODULE NetAddress ------------------------------
(***************************************************************************)
(* How the network helpers (TCPConnect.hh) turn what a configuration says  *)
(* into addresses.  The text of a configured host is a record: its form,   *)
(* as the three regular expressions tell forms apart, and the host and     *)
(* port they cut out of it.                                                *)
(***************************************************************************)
EXTENDS Integers, Sequences, SequencesExt

CONSTANTS
  Numeric,      \* the addresses written as four numbers, taken as they are
  Dns,          \* a function from the names that resolve to addresses
  Interfaces    \* the host's interfaces, in order: the address of each, whether
                \* it is a loopback, and the addresses of its network

Loopback == "127.0.0.1"
AnyAddress == "0.0.0.0"

ASSUME NetAddressAssumption ==
  /\ {Loopback, AnyAddress} \subseteq Numeric
  /\ DOMAIN Dns \cap Numeric = {}
  /\ \A i \in DOMAIN Interfaces :
       DOMAIN Interfaces[i] = {"address", "local", "network"}

Forms == {"host:port", "port", "host", "other"}

NoAddress == "none"   \* the helpers' -1

HostPart(spec) == IF spec.form \in {"host:port", "host"} THEN spec.host ELSE Loopback
PortPart(spec, dflt) == IF spec.form \in {"host:port", "port"} THEN spec.port ELSE dflt

\* inet_aton() or gethostbyname().
Lookup(host) ==
  CASE host \in Numeric    -> host
    [] host \in DOMAIN Dns -> Dns[host]
    [] OTHER               -> NoAddress

\* ResolveHost() for an in_addr: a port in the text is dropped.
ResolveHost(spec) == Lookup(HostPart(spec))

\* ResolveHost() for a sockaddr_in: a port in the text wins.
ResolveHostPort(spec, dflt) ==
  [address |-> Lookup(IF HostPart(spec) = "localhost" THEN Loopback ELSE HostPart(spec)),
   port    |-> PortPart(spec, dflt)]

\* GetInterfaceForNetwork(): the first interface that shares the network of a
\* numeric address, or any interface; a name is looked up instead.
GetInterfaceForNetwork(spec) ==
  LET host == HostPart(spec)
      first == SelectInSeq(Interfaces, LAMBDA i : host \in i.network)
  IN  IF host \notin Numeric THEN Lookup(host)
      ELSE IF first = 0 THEN AnyAddress ELSE Interfaces[first].address

\* The address ELUDP reports for its host: that of its name if it has one, else
\* the first interface that is no loopback, else the last one looked at.
OwnAddress(name) ==
  LET first == SelectInSeq(Interfaces, LAMBDA i : ~i.local)
  IN  CASE name \in DOMAIN Dns  -> Dns[name]
        [] first # 0            -> Interfaces[first].address
        [] Interfaces = <<>>    -> Loopback
        [] OTHER                -> Last(Interfaces).address
=============================================================================
