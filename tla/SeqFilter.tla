----------------------------- MODULE SeqFilter -----------------------------
(***************************************************************************)
(* The part of a sequence that a loop with remove_if(), erase() or a       *)
(* condition leaves, as a recursive function that can be reasoned about.   *)
(***************************************************************************)
EXTENDS Integers, Sequences

\* The elements of s that are in T, in their order.
Keep(s, T) ==
  LET kept[i \in 0 .. Len(s)] ==
        IF i = 0 THEN <<>>
        ELSE IF s[i] \in T THEN Append(kept[i - 1], s[i]) ELSE kept[i - 1]
  IN  kept[Len(s)]
=============================================================================
