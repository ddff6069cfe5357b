------------------------------- MODULE LogTail -------------------------------
(* What readers of growing logs promise: whatever is written to a log is      *)
(* read from it once, in the order it was written.                            *)
EXTENDS Sequences, Naturals

CONSTANTS Readers, Msgs

VARIABLES
  written,  \* written[r]: the messages in the log of reader r
  read      \* read[r]: what r has read of them

vars == <<written, read>>

Init ==
  /\ written \in [Readers -> Seq(Msgs)]
  /\ read = [r \in Readers |-> <<>>]

\* The readers of one log see the same message appended.
Write(m, rs) ==
  /\ written' = [r \in Readers |-> IF r \in rs THEN Append(written[r], m) ELSE written[r]]
  /\ UNCHANGED read

ReadNext(r) ==
  /\ Len(read[r]) < Len(written[r])
  /\ read' = [read EXCEPT ![r] = Append(@, written[r][Len(@) + 1])]
  /\ UNCHANGED written

Next ==
  \/ \E m \in Msgs, rs \in SUBSET Readers : Write(m, rs)
  \/ \E r \in Readers : ReadNext(r)

Spec == Init /\ [][Next]_vars
=============================================================================
