----------------------------- MODULE MsgViewer -----------------------------
(***************************************************************************)
(* The message viewer's dialog (mfextensions/Binaries/mvdlg.cc): the pool  *)
(* of the messages it keeps, the index of the pool by host, application    *)
(* and category, the filter tabs, and the counters it displays.            *)
(*                                                                         *)
(* Everything runs in the GUI thread: the receivers' messages are queued   *)
(* to it, so a slot runs in one piece, with the slots that the signals of  *)
(* Qt call from inside it.  A message is an identity with a host, an       *)
(* application, a category, a severity and an address in memory (the       *)
(* lists hold shared pointers, and are merged in the order of these).      *)
(***************************************************************************)
EXTENDS MsgThrottle, SeqFilter

CONSTANTS
  Sev,           \* Sev[m]: its severity
  Addr,          \* Addr[m]: its address
  Levels,        \* the severity thresholds the user chooses from
  Selections,    \* the selections the user makes in the three lists
  MaxMsgs,       \* maxMsgs
  MaxDeleted,    \* maxDeletedMsgs
  MaxTabs        \* bound: open tabs

SINFO == 1

ASSUME ViewerAssumption ==
  /\ Sev \in [Msgs -> 0 .. 3] /\ Levels \subseteq 0 .. 3
  /\ Addr \in [Msgs -> Nat] /\ IsInjective(Addr)
  /\ MaxMsgs \in Nat /\ MaxDeleted \in Nat /\ MaxTabs \in Nat

VARIABLES
  count,     \* nMsgs, nSupMsgs, nThrMsgs and nDeleted
  pool,      \* msg_pool_
  index,     \* index[d]: host_msgs_, app_msgs_, cat_msgs_
  lists,     \* lists[d]: the items of lwHost, lwApplication, lwCategory
  tabs,      \* msgFilters_
  cur,       \* the current tab
  slider,    \* the severity that the slider and the buttons show
  arrived    \* the messages that have arrived so far

front == <<sup, thr>>
vars == <<count, pool, index, lists, tabs, cur, slider, arrived, front>>

NoFilter == [d \in Dims |-> {}]

\* A tab: what it filters, its messages, its severity threshold, the text it
\* shows (nDisplayMsgs is its length) and nDisplayedDeletedMsgs.
Tab(filter, msgs, thresh, shown, gone) ==
  [filter |-> filter, msgs |-> msgs, thresh |-> thresh, shown |-> shown, gone |-> gone]

NewTab(filter, msgs) == Tab(filter, msgs, SINFO, <<>>, 0)

TypeOK ==
  /\ ThrottleTypeOK
  /\ count \in [{"msgs", "sup", "thr", "deleted"} -> Nat]
  /\ pool \in Seq(Msgs) /\ arrived \subseteq Msgs
  /\ \A d \in Dims : /\ \A k \in DOMAIN index[d] : index[d][k] \in Seq(Msgs)
                     /\ lists[d] \subseteq {Attr[d][m] : m \in Msgs}
  /\ \A i \in DOMAIN tabs : /\ tabs[i].msgs \in Seq(Msgs) /\ tabs[i].shown \in Seq(Msgs)
                            /\ tabs[i].thresh \in 0 .. 3 /\ tabs[i].gone \in Nat
  /\ cur \in DOMAIN tabs /\ slider \in 0 .. 3

Init ==
  /\ ThrottleInit
  /\ count = [c \in {"msgs", "sup", "thr", "deleted"} |-> 0]
  /\ pool = <<>>
  /\ index = [d \in Dims |-> <<>>]
  /\ lists = [d \in Dims |-> {}]
  /\ tabs = <<NewTab(NoFilter, <<>>)>>
  /\ cur = 1
  /\ slider = SINFO
  /\ arrived = {}

-----------------------------------------------------------------------------
(* Displays.                                                               *)

Visible(msgs, thresh) == Keep(msgs, {m \in Msgs : Sev[m] >= thresh})

\* displayMsgs(): the text is written anew.
Displayed(t) == Tab(t.filter, t.msgs, t.thresh, Visible(t.msgs, t.thresh), 0)

\* tabWidgetCurrentChanged(): the tab at position i is displayed and the slider
\* takes its threshold.
CurrentChanged(ts, i) ==
  /\ tabs' = [ts EXCEPT ![i] = Displayed(@)]
  /\ slider' = ts[i].thresh

-----------------------------------------------------------------------------
(* onNewMsg().                                                             *)

\* Mutations: the messages leave the pool but stay in the index; a key is kept
\* with an empty list.
TrimIndexNot(ix, gone) == ix

TrimIndexKeys(ix, gone) ==
  [d \in Dims |-> [k \in DOMAIN ix[d] |-> Keep(ix[d][k], Msgs \ gone)]]

\* The messages in gone leave the index, and keys without messages with them.
TrimIndex(ix, gone) ==
  [d \in Dims |->
     LET Left(k) == Keep(ix[d][k], Msgs \ gone)
     IN  [k \in {j \in DOMAIN ix[d] : Left(j) # <<>>} |-> Left(k)]]

\* update_index()
AddToIndex(ix, m) ==
  [d \in Dims |->
     [k \in DOMAIN ix[d] \cup {Attr[d][m]} |->
        LET old == IF k \in DOMAIN ix[d] THEN ix[d][k] ELSE <<>>
        IN  IF k = Attr[d][m] THEN Append(old, m) ELSE old]]

\* A list is filled again when a key has left the index or come into it.
Refilled(items, before, after) ==
  [d \in Dims |-> IF DOMAIN before[d] # DOMAIN after[d] THEN DOMAIN after[d] ELSE items[d]]

\* How many messages are too many.
Excess(s, max) == IF Len(s) > max THEN Len(s) - max ELSE 0

Oldest(s, n) == SubSeq(s, 1, n)
Rest(s, n)   == SubSeq(s, n + 1, Len(s))

\* trim_msg_pool() on a tab: its oldest messages go, and the text of the
\* current tab is written anew when it has too many that are gone.
TrimTab(t, current) ==
  LET n == Excess(t.msgs, MaxMsgs)
      u == Tab(t.filter, Rest(t.msgs, n), t.thresh, t.shown,
               t.gone + Len(Visible(Oldest(t.msgs, n), t.thresh)))
  IN  IF current /\ MaxDeleted > 0 /\ u.gone > MaxDeleted THEN Displayed(u) ELSE u

Matches(filter, m) == \A d \in Dims : filter[d] = {} \/ Attr[d][m] \in filter[d]

\* Mutation: a message is added to the current tab only.
PushToCurrent(t, current, m) ==
  IF ~current \/ ~Matches(t.filter, m) THEN t
  ELSE Tab(t.filter, Append(t.msgs, m), t.thresh,
           IF Sev[m] >= t.thresh THEN Append(t.shown, m) ELSE t.shown, t.gone)

\* The tab takes a message that matches, and shows it if it is the current one.
PushTo(t, current, m) ==
  IF ~Matches(t.filter, m) THEN t
  ELSE Tab(t.filter, Append(t.msgs, m), t.thresh,
           IF current /\ Sev[m] >= t.thresh THEN Append(t.shown, m) ELSE t.shown, t.gone)

Receive(m) ==
  /\ m \notin arrived
  /\ arrived' = arrived \cup {m}
  /\ IF IsSuppressed(m) THEN UNCHANGED thr ELSE Ask(m)
  /\ UNCHANGED <<cur, slider, sup>>

\* A message that is suppressed or throttled is counted, and that is all.
Drop(m) ==
  /\ IsSuppressed(m) \/ Reached(m) # {}
  /\ Receive(m)
  /\ count' = [count EXCEPT !.msgs = @ + 1, ![IF IsSuppressed(m) THEN "sup" ELSE "thr"] = @ + 1]
  /\ UNCHANGED <<pool, index, lists, tabs>>

NewMsg(m) ==
  /\ ~IsSuppressed(m) /\ Reached(m) = {}
  /\ Receive(m)
  /\ LET p  == Append(pool, m)
         n  == IF MaxMsgs > 0 THEN Excess(p, MaxMsgs) ELSE 0
         i1 == TrimIndex(index, ToSet(Oldest(p, n)))
         i2 == AddToIndex(i1, m)
     IN  /\ pool' = Rest(p, n)
         /\ count' = [count EXCEPT !.msgs = @ + 1, !.deleted = @ + n]
         /\ index' = i2
         /\ lists' = Refilled(Refilled(lists, index, i1), i1, i2)
         /\ tabs' = [j \in DOMAIN tabs |-> PushTo(TrimTab(tabs[j], j = cur), j = cur, m)]

-----------------------------------------------------------------------------
(* setFilter().                                                            *)

\* std::list::merge() on lists that need not be sorted by address: taken[n] of the
\* first n elements are from b.
Merge(a, b) ==
  LET FromB(i, j) == j < Len(b) /\ (i = Len(a) \/ Addr[b[j + 1]] < Addr[a[i + 1]])
      taken[n \in 0 .. Len(a) + Len(b)] ==
        IF n = 0 THEN 0
        ELSE LET j == taken[n - 1] IN IF FromB(n - 1 - j, j) THEN j + 1 ELSE j
  IN  [n \in 1 .. Len(a) + Len(b) |->
         IF taken[n] > taken[n - 1] THEN b[taken[n]] ELSE a[n - taken[n]]]

\* list_intersect(), likewise: the two iterators, and the output.
Walk(i, j, out) == [i |-> i, j |-> j, out |-> out]

WalkOn(a, b, w) ==
  IF w.i > Len(a) \/ w.j > Len(b) THEN w
  ELSE IF Addr[a[w.i]] < Addr[b[w.j]] THEN Walk(w.i + 1, w.j, w.out)
  ELSE IF Addr[b[w.j]] < Addr[a[w.i]] THEN Walk(w.i, w.j + 1, w.out)
  ELSE Walk(w.i + 1, w.j + 1, Append(w.out, a[w.i]))

ListIntersect(a, b) ==
  LET walk[n \in 0 .. Len(a) + Len(b)] ==
        IF n = 0 THEN Walk(1, 1, <<>>) ELSE WalkOn(a, b, walk[n - 1])
  IN  walk[Len(a) + Len(b)].out

\* The messages of the selected items of one list.
Selected(d, items) ==
  LET found == SetToSeq(items \cap DOMAIN index[d])
      merged[i \in 0 .. Len(found)] ==
        IF i = 0 THEN <<>> ELSE Merge(merged[i - 1], index[d][found[i]])
  IN  merged[Len(found)]

\* A second list narrows the result, unless there is none yet.
Narrow(result, d, items) ==
  IF items = {} THEN result
  ELSE IF result = <<>> THEN Selected(d, items)
  ELSE ListIntersect(result, Selected(d, items))

Filtered(sel) ==
  Narrow(Narrow(Selected("app", sel["app"]), "host", sel["host"]), "cat", sel["cat"])

\* The filter expression is the text of the selections that are not empty.
Expression(sel) ==
  SelectSeq(<<sel["cat"], sel["host"], sel["app"]>>, LAMBDA items : items # {})

SetFilter(sel) ==
  /\ sel # NoFilter /\ \A d \in Dims : sel[d] \subseteq lists[d]
  /\ LET same == {i \in DOMAIN tabs : Expression(tabs[i].filter) = Expression(sel)}
     IN  \/ /\ same # {}
            /\ cur' = CHOOSE i \in same : \A j \in same : i <= j
            /\ IF cur' = cur THEN UNCHANGED <<tabs, slider>> ELSE CurrentChanged(tabs, cur')
         \/ /\ same = {} /\ Len(tabs) < MaxTabs
            /\ cur' = Len(tabs) + 1
            /\ CurrentChanged(Append(tabs, NewTab(sel, Filtered(sel))), cur')
  /\ UNCHANGED <<count, pool, index, lists, arrived, front>>

-----------------------------------------------------------------------------
(* The other slots.                                                        *)

\* Mutation: the threshold changes and the text stays as it is.
SetSevQuietly(s) ==
  /\ slider' = s
  /\ tabs' = [tabs EXCEPT ![cur].thresh = s]
  /\ UNCHANGED <<count, pool, index, lists, cur, arrived, front>>

\* A severity button, or the slider: the buttons move the slider, and the
\* slider writes the text anew when it has moved.
SetSev(s) ==
  /\ slider' = s
  /\ LET ts == [tabs EXCEPT ![cur].thresh = s]
     IN  tabs' = IF slider = s THEN ts ELSE [ts EXCEPT ![cur] = Displayed(@)]
  /\ UNCHANGED <<count, pool, index, lists, cur, arrived, front>>

SwitchTab(i) ==
  /\ i # cur
  /\ cur' = i
  /\ CurrentChanged(tabs, i)
  /\ UNCHANGED <<count, pool, index, lists, arrived, front>>

\* tabCloseRequested(): removing the widget of the tab makes Qt choose another
\* current tab (the one to its right, if there is one) and announce it, before
\* the tab has left msgFilters_.
CloseTab(i) ==
  /\ i > 1
  /\ cur' = IF cur > i \/ (i = cur /\ cur = Len(tabs)) THEN cur - 1 ELSE cur
  /\ IF i > cur
     THEN tabs' = RemoveAt(tabs, i) /\ UNCHANGED slider
     ELSE /\ tabs' = RemoveAt([tabs EXCEPT ![cur'] = Displayed(@)], i)
          /\ slider' = tabs[cur'].thresh
  /\ UNCHANGED <<count, pool, index, lists, arrived, front>>

Clear ==
  /\ count' = [c \in DOMAIN count |-> 0]
  /\ pool' = <<>>
  /\ index' = [d \in Dims |-> <<>>]
  /\ lists' = [d \in Dims |-> {}]
  /\ tabs' = [i \in DOMAIN tabs |-> Tab(tabs[i].filter, <<>>, tabs[i].thresh, <<>>, 0)]
  /\ UNCHANGED <<cur, slider, arrived, front>>

\* The other text mode: every display is written anew.
ShortMode ==
  /\ tabs' = [i \in DOMAIN tabs |-> Displayed(tabs[i])]
  /\ UNCHANGED <<count, pool, index, lists, cur, slider, arrived, front>>

\* An entry of the suppression or the throttling menu is checked or unchecked.
Toggle ==
  /\ \/ \E i \in DOMAIN sup : SetSuppression(i)
     \/ \E k \in DOMAIN thr : SetThrottling(k)
  /\ UNCHANGED <<count, pool, index, lists, tabs, cur, slider, arrived>>

Next ==
  \/ \E m \in Msgs : Drop(m)
  \/ \E m \in Msgs : NewMsg(m)
  \/ Toggle
  \/ \E sel \in Selections : SetFilter(sel)
  \/ \E s \in Levels : SetSev(s)
  \/ \E i \in DOMAIN tabs : SwitchTab(i)
  \/ \E i \in DOMAIN tabs : CloseTab(i)
  \/ Clear
  \/ ShortMode

Spec == Init /\ [][Next]_vars

-----------------------------------------------------------------------------
(* Properties.                                                             *)

\* Every message received is suppressed, throttled, deleted or in the pool, and
\* the counters on display say so (mvdlg.cc:252-285, 315, 400, 848-851).
CountersAddUp ==
  count["msgs"] = count["sup"] + count["thr"] + count["deleted"] + Len(pool)

\* The index is the pool, sorted by key: no message that has left the pool is
\* found through it, none that is in the pool is missed, and the lists offer
\* exactly the keys there are (mvdlg.cc:359-474).
IndexIsPool ==
  \A d \in Dims :
    /\ index[d] = [k \in {Attr[d][m] : m \in ToSet(pool)} |->
                     Keep(pool, {m \in Msgs : Attr[d][m] = k})]
    /\ lists[d] = DOMAIN index[d]

\* "Display all messages stored in the buffer" (mvdlg.hh:103): the current tab
\* shows all of its messages at or above its threshold, after
\* those that have left it since, which nDisplayedDeletedMsgs counts
\* (mvdlg.cc:353, 413-433, 476-515).
ShownIsComplete ==
  LET t == tabs[cur]
  IN  /\ Len(t.shown) = t.gone + Len(Visible(t.msgs, t.thresh))
      /\ Rest(t.shown, t.gone) = Visible(t.msgs, t.thresh)

\* The slider shows the threshold of the current tab (mvdlg.cc:922-964,
\* 1074-1088).
SliderIsThreshold == slider = tabs[cur].thresh

\* A tab has every message of the pool that matches its filter, whether it came
\* before the tab was made or after (mvdlg.cc:337-356, 724-785).
NothingHidden ==
  \A i \in DOMAIN tabs : \A m \in ToSet(pool) :
    Matches(tabs[i].filter, m) => m \in ToSet(tabs[i].msgs)

\* "Finally, remove the message from the pool so it doesn't appear in new
\* filters" (mvdlg.cc:398).
NewFiltersFromPool ==
  [][Len(tabs') > Len(tabs) => ToSet(tabs'[Len(tabs')].msgs) \subseteq ToSet(pool)]_vars

\* The current tab shows at most max_displayed_deleted_messages that are gone,
\* unless that is 0 (msgviewer.fcl:2, mvdlg.cc:427).
GoneIsBounded == MaxDeleted > 0 => tabs[cur].gone <= MaxDeleted

\* A throttle opens again: a message stamped more than the timespan after every
\* message before it is not throttled, whatever the throttle has counted and
\* however it was switched in between (throttle.cc:34-45, mvdlg.cc:252-285).
ThrottleReopens ==
  [][\A m \in arrived' \ arrived :
       (\A k \in DOMAIN thr : /\ Throttled[k].limit # 0 /\ Throttled[k].span > 0
                              /\ \A t \in {0} \cup {Time[a] : a \in arrived} :
                                   Time[m] - t > Throttled[k].span)
       => count'["thr"] = count["thr"]]_vars

\* A tab has only messages that match its filter, those found in the index when
\* it was made as well as those that came later (mvdlg.cc:337-356, 724-785).
OnlyMatching ==
  \A i \in DOMAIN tabs : \A m \in ToSet(tabs[i].msgs) : Matches(tabs[i].filter, m)

\* What is kept: the pool, the index, the lists and the counters tell the same story
\* (mvdlg.cc:252-474).
PoolInv == TypeOK /\ CountersAddUp /\ IndexIsPool

\* What is on display is the current tab: its messages, its threshold, and no more
\* of what is gone than allowed (mvdlg.cc:413-515, 898-964, 1040-1089).
DisplayInv == ShownIsComplete /\ SliderIsThreshold /\ GoneIsBounded

\* A tab is its filter, applied to the pool (mvdlg.cc:337-356, 724-785).
TabsInv == NothingHidden /\ OnlyMatching
=============================================================================
