---------------------------- MODULE MsgThrottle ----------------------------
(***************************************************************************)
(* The suppression and throttling lists of the message viewer              *)
(* (mfextensions/Extensions/suppress.cc, throttle.cc) and the order in     *)
(* which the dialog asks them (mfextensions/Binaries/mvdlg.cc).            *)
(*                                                                         *)
(* A regular expression is the set of names it matches.                    *)
(***************************************************************************)
EXTENDS Integers, Sequences, FiniteSets, SequencesExt

CONSTANTS
  Msgs,          \* the messages that may arrive, each of them once
  Attr,          \* Attr[d][m]: host, application or category of message m
  Time,          \* Time[m]: the second the sender has stamped it with
  Suppressed,    \* the list: what is looked at and the names that match
  Throttled      \* likewise, with the limit and the timespan; both lists are in
                 \* the order hosts, applications, categories

Dims == {"host", "app", "cat"}

ASSUME ThrottleAssumption ==
  /\ Dims \subseteq DOMAIN Attr /\ \A d \in Dims : Msgs \subseteq DOMAIN Attr[d]
  /\ Time \in [Msgs -> Nat]
  /\ \A i \in DOMAIN Suppressed : Suppressed[i].dim \in Dims
  /\ \A k \in DOMAIN Throttled : /\ Throttled[k].dim \in Dims
                                 /\ Throttled[k].limit \in Int /\ Throttled[k].span \in Int

VARIABLES
  sup,           \* sup[i]: in_use_ of entry i of the suppression list
  thr            \* thr[k]: in_use_, last_window_start_ and count_ of throttle k

ThrottleTypeOK ==
  /\ sup \in [DOMAIN Suppressed -> BOOLEAN]
  /\ thr \in [DOMAIN Throttled -> [use : BOOLEAN, start : Nat, count : Nat]]

ThrottleInit ==
  /\ sup = [i \in DOMAIN Suppressed |-> TRUE]
  /\ thr = [k \in DOMAIN Throttled |-> [use |-> TRUE, start |-> 0, count |-> 0]]

Names(entry, m) == Attr[entry.dim][m] \in entry.names

IsSuppressed(m) == \E i \in DOMAIN sup : sup[i] /\ Names(Suppressed[i], m)

\* reach_limit() counts the message against its window, or against the total
\* when there is no timespan.
Counts(k, m) == thr[k].use /\ Names(Throttled[k], m) /\ Throttled[k].limit > 0

\* Mutation: a new window goes on with the old count.
CountedOn(k, m) ==
  IF Throttled[k].span > 0 /\ Time[m] - thr[k].start > Throttled[k].span
  THEN [thr[k] EXCEPT !.start = Time[m], !.count = @ + 1]
  ELSE [thr[k] EXCEPT !.count = @ + 1]

Counted(k, m) ==
  IF Throttled[k].span > 0 /\ Time[m] - thr[k].start > Throttled[k].span
  THEN [thr[k] EXCEPT !.start = Time[m], !.count = 1]
  ELSE [thr[k] EXCEPT !.count = @ + 1]

ReachLimit(k, m) ==
  \/ Counts(k, m) /\ Counted(k, m).count > Throttled[k].limit
  \/ thr[k].use /\ Names(Throttled[k], m) /\ Throttled[k].limit = 0

Reached(m) == {k \in DOMAIN thr : ReachLimit(k, m)}

\* The throttles are asked until one has reached its limit; the later ones do
\* not count the message.
Ask(m) ==
  thr' = [k \in DOMAIN thr |->
            IF Counts(k, m) /\ \A j \in Reached(m) : k <= j THEN Counted(k, m) ELSE thr[k]]

\* The menus.
SetSuppression(i) == sup' = [sup EXCEPT ![i] = ~@] /\ UNCHANGED thr
SetThrottling(k)  == thr' = [thr EXCEPT ![k].use = ~@] /\ UNCHANGED sup
=============================================================================
