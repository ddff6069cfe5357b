------------------------------- MODULE Outbox -------------------------------
(***************************************************************************)
(* What a digest mailer promises: the messages it has accepted leave in    *)
(* the order in which they were accepted, each of them once, in digests    *)
(* that are never empty.                                                   *)
(***************************************************************************)
EXTENDS Integers, Sequences

CONSTANT Msgs

VARIABLES
  pending,   \* accepted and not yet sent
  sent       \* the messages of all digests, in the order they were sent

vars == <<pending, sent>>

Init == pending = <<>> /\ sent = <<>>

Accept(m) ==
  /\ pending' = Append(pending, m)
  /\ UNCHANGED sent

\* A digest of the n oldest messages leaves.
Send(n) ==
  /\ sent' = sent \o SubSeq(pending, 1, n)
  /\ pending' = SubSeq(pending, n + 1, Len(pending))

Next ==
  \/ \E m \in Msgs : Accept(m)
  \/ \E n \in 1 .. Len(pending) : Send(n)

Spec == Init /\ [][Next]_vars
=============================================================================
