--------------------------- MODULE MsgViewerProofs ---------------------------
(***************************************************************************)
(* Theorems about MsgViewer: no message is lost between the counters and   *)
(* the pool, a throttle opens again, the pool and its index agree, the     *)
(* current tab is on display, and a tab is its filter applied to the pool. *)
(***************************************************************************)
EXTENDS MsgViewer, DataProofs, FiniteSetTheorems

Counters == {"msgs", "sup", "thr", "deleted"}

-----------------------------------------------------------------------------
(* The counters.                                                           *)

CountInv ==
  /\ count \in [Counters -> Nat]
  /\ pool \in Seq(Msgs)
  /\ CountersAddUp

LEMMA InitCountInv == Init => CountInv
BY DEF Init, CountInv, CountersAddUp, Counters

LEMMA DropCounts ==
  ASSUME CountInv, NEW m \in Msgs, Drop(m)
  PROVE  CountInv'
<1>0. /\ count["msgs"] \in Nat /\ count["sup"] \in Nat /\ count["thr"] \in Nat
      /\ count["deleted"] \in Nat /\ Len(pool) \in Nat
  BY DEF CountInv, Counters
<1>1. CASE IsSuppressed(m)
  <2>1. count' = [count EXCEPT !["msgs"] = @ + 1, !["sup"] = @ + 1]
    BY <1>1 DEF Drop
  <2>2. count' \in [Counters -> Nat]
    BY <2>1 DEF CountInv, Counters
  <2>3. /\ count'["msgs"] = count["msgs"] + 1 /\ count'["sup"] = count["sup"] + 1
        /\ count'["thr"] = count["thr"] /\ count'["deleted"] = count["deleted"]
    BY <2>1 DEF CountInv, Counters
  <2>4. pool' = pool
    BY DEF Drop
  <2>5. CountersAddUp'
    BY <1>0, <2>3, <2>4 DEF CountInv, CountersAddUp
  <2>. QED BY <2>2, <2>4, <2>5 DEF CountInv
<1>2. CASE ~IsSuppressed(m)
  <2>1. count' = [count EXCEPT !["msgs"] = @ + 1, !["thr"] = @ + 1]
    BY <1>2 DEF Drop
  <2>2. count' \in [Counters -> Nat]
    BY <2>1 DEF CountInv, Counters
  <2>3. /\ count'["msgs"] = count["msgs"] + 1 /\ count'["thr"] = count["thr"] + 1
        /\ count'["sup"] = count["sup"] /\ count'["deleted"] = count["deleted"]
    BY <2>1 DEF CountInv, Counters
  <2>4. pool' = pool
    BY DEF Drop
  <2>5. CountersAddUp'
    BY <1>0, <2>3, <2>4 DEF CountInv, CountersAddUp
  <2>. QED BY <2>2, <2>4, <2>5 DEF CountInv
<1>. QED BY <1>1, <1>2

LEMMA NewMsgCounts ==
  ASSUME CountInv, NEW m \in Msgs, NewMsg(m)
  PROVE  CountInv'
<1>. DEFINE p == Append(pool, m)
            n == IF MaxMsgs > 0 THEN Excess(p, MaxMsgs) ELSE 0
<1>1. p \in Seq(Msgs) /\ Len(p) = Len(pool) + 1
  BY DEF CountInv
<1>2. n \in 0 .. Len(p)
  BY <1>1, ViewerAssumption DEF Excess
<1>3. pool' = Rest(p, n) /\ count' = [count EXCEPT !["msgs"] = @ + 1, !["deleted"] = @ + n]
  BY DEF NewMsg
<1> HIDE DEF p, n
<1>4. pool' \in Seq(Msgs) /\ Len(pool') = Len(p) - n
  BY <1>1, <1>2, <1>3 DEF Rest
<1>5. count' \in [Counters -> Nat]
  BY <1>2, <1>3 DEF CountInv, Counters
<1>6. /\ count'["msgs"] = count["msgs"] + 1 /\ count'["deleted"] = count["deleted"] + n
      /\ count'["sup"] = count["sup"] /\ count'["thr"] = count["thr"]
  BY <1>3 DEF CountInv, Counters
<1>7. /\ count["msgs"] \in Nat /\ count["sup"] \in Nat /\ count["thr"] \in Nat
      /\ count["deleted"] \in Nat /\ CountersAddUp /\ Len(pool) \in Nat
  BY DEF CountInv, Counters
<1>8. CountersAddUp'
  BY <1>1, <1>2, <1>4, <1>6, <1>7, SMTT(30) DEF CountersAddUp
<1>. QED BY <1>4, <1>5, <1>8 DEF CountInv

LEMMA ClearCounts ==
  ASSUME CountInv, Clear
  PROVE  CountInv'
<1>1. count' \in [Counters -> Nat] /\ \A c \in Counters : count'[c] = 0
  BY DEF Clear, CountInv
<1>2. pool' = <<>>
  BY DEF Clear
<1>3. pool' \in Seq(Msgs) /\ Len(pool') = 0
  BY <1>2
<1>. QED BY <1>1, <1>3 DEF CountInv, CountersAddUp, Counters

LEMMA CountInductive == CountInv /\ [Next]_vars => CountInv'
<1>. SUFFICES ASSUME CountInv, [Next]_vars PROVE CountInv'
  OBVIOUS
<1>1. CASE \E m \in Msgs : Drop(m) \/ NewMsg(m)
  BY <1>1, DropCounts, NewMsgCounts
<1>2. CASE Clear
  BY <1>2, ClearCounts
<1>3. CASE UNCHANGED <<count, pool>>
  BY <1>3 DEF CountInv, CountersAddUp
<1>4. CASE Toggle \/ ShortMode \/ UNCHANGED vars
  BY <1>3, <1>4 DEF Toggle, ShortMode, vars
<1>5. CASE \E sel \in Selections : SetFilter(sel)
  BY <1>3, <1>5 DEF SetFilter
<1>6. CASE \E s \in Levels : SetSev(s)
  BY <1>3, <1>6 DEF SetSev
<1>7. CASE \E i \in DOMAIN tabs : SwitchTab(i) \/ CloseTab(i)
  BY <1>3, <1>7 DEF SwitchTab, CloseTab
<1>. QED BY <1>1, <1>2, <1>4, <1>5, <1>6, <1>7 DEF Next

\* Every message that has been received is suppressed, throttled, deleted or in the
\* pool, for any limits and lists (mvdlg.cc:252-285, 309-411, 840-881).
THEOREM NoMessageLost == Spec => []CountersAddUp
<1>1. CountInv => CountersAddUp
  BY DEF CountInv
<1>. QED BY InitCountInv, CountInductive, <1>1, PTL DEF Spec

-----------------------------------------------------------------------------
(* The throttles.                                                          *)

\* A window has begun with a message that has arrived.
WindowsBegan ==
  /\ ThrottleTypeOK
  /\ arrived \subseteq Msgs
  /\ \A k \in DOMAIN thr : thr[k].start \in {0} \cup {Time[a] : a \in arrived}

LEMMA InitWindows == Init => WindowsBegan
BY DEF Init, ThrottleInit, WindowsBegan, ThrottleTypeOK

LEMMA CountedWindow ==
  ASSUME WindowsBegan, NEW m \in Msgs, NEW k \in DOMAIN thr
  PROVE  /\ Counted(k, m) \in [use : BOOLEAN, start : Nat, count : Nat]
         /\ Counted(k, m).start \in {thr[k].start, Time[m]}
<1>1. thr[k] \in [use : BOOLEAN, start : Nat, count : Nat] /\ Time[m] \in Nat
  BY ThrottleAssumption DEF WindowsBegan, ThrottleTypeOK
<1>2. CASE Throttled[k].span > 0 /\ Time[m] - thr[k].start > Throttled[k].span
  <2>1. Counted(k, m) = [thr[k] EXCEPT !.start = Time[m], !.count = 1]
    BY <1>2 DEF Counted
  <2>2. Counted(k, m) = [use |-> thr[k].use, start |-> Time[m], count |-> 1]
    BY <1>1, <2>1
  <2>. QED BY <1>1, <2>2
<1>3. CASE ~(Throttled[k].span > 0 /\ Time[m] - thr[k].start > Throttled[k].span)
  <2>1. Counted(k, m) = [thr[k] EXCEPT !.count = @ + 1]
    BY <1>3 DEF Counted
  <2>. QED BY <1>1, <2>1
<1>. QED BY <1>2, <1>3

LEMMA ReceiveWindows ==
  ASSUME WindowsBegan, NEW m \in Msgs, Receive(m)
  PROVE  WindowsBegan'
<1>1. arrived' \subseteq Msgs /\ arrived \subseteq arrived' /\ m \in arrived'
  BY DEF Receive, WindowsBegan
<1>2. DOMAIN thr' = DOMAIN thr
  BY DEF Receive, Ask
<1>3. ASSUME NEW k \in DOMAIN thr
      PROVE  thr'[k] = thr[k] \/ thr'[k] = Counted(k, m)
  BY <1>3 DEF Receive, Ask
<1>4. ThrottleTypeOK'
  <2>1. \A k \in DOMAIN thr : thr'[k] \in [use : BOOLEAN, start : Nat, count : Nat]
    BY <1>3, CountedWindow DEF WindowsBegan, ThrottleTypeOK
  <2>2. thr' = [k \in DOMAIN thr |-> thr'[k]]
    BY DEF Receive, Ask, WindowsBegan, ThrottleTypeOK
  <2>. QED BY <2>1, <2>2 DEF Receive, WindowsBegan, ThrottleTypeOK
<1>5. ASSUME NEW k \in DOMAIN thr
      PROVE  thr'[k].start \in {0} \cup {Time[a] : a \in arrived'}
  <2>1. thr'[k].start \in {thr[k].start, Time[m]}
    BY <1>3, CountedWindow
  <2>. QED BY <1>1, <2>1 DEF WindowsBegan
<1>. QED BY <1>1, <1>2, <1>4, <1>5 DEF WindowsBegan

LEMMA ToggleWindows ==
  ASSUME WindowsBegan, Toggle
  PROVE  WindowsBegan'
<1>1. CASE \E i \in DOMAIN sup : SetSuppression(i)
  BY <1>1 DEF Toggle, SetSuppression, WindowsBegan, ThrottleTypeOK
<1>2. CASE \E k \in DOMAIN thr : SetThrottling(k)
  <2>1. PICK k \in DOMAIN thr : SetThrottling(k)
    BY <1>2
  <2>2. /\ thr' \in [DOMAIN Throttled -> [use : BOOLEAN, start : Nat, count : Nat]]
        /\ \A j \in DOMAIN thr : thr'[j].start = thr[j].start
    BY <2>1 DEF SetThrottling, WindowsBegan, ThrottleTypeOK
  <2>3. arrived' = arrived /\ sup' = sup
    BY <2>1 DEF Toggle, SetThrottling
  <2>. QED BY <2>2, <2>3 DEF WindowsBegan, ThrottleTypeOK
<1>. QED BY <1>1, <1>2 DEF Toggle

LEMMA WindowsInductive == WindowsBegan /\ [Next]_vars => WindowsBegan'
<1>. SUFFICES ASSUME WindowsBegan, [Next]_vars PROVE WindowsBegan'
  OBVIOUS
<1>1. CASE \E m \in Msgs : Drop(m) \/ NewMsg(m)
  BY <1>1, ReceiveWindows DEF Drop, NewMsg
<1>2. CASE Toggle
  BY <1>2, ToggleWindows
<1>3. CASE UNCHANGED <<sup, thr, arrived>>
  BY <1>3 DEF WindowsBegan, ThrottleTypeOK
<1>. QED BY <1>1, <1>2, <1>3 DEF Next, SetFilter, SetSev, SwitchTab, CloseTab, Clear, ShortMode,
                                  vars, front

\* The message m is stamped a timespan after all that came before it.
Late(m) ==
  \A k \in DOMAIN thr : /\ Throttled[k].limit # 0 /\ Throttled[k].span > 0
                        /\ \A t \in {0} \cup {Time[a] : a \in arrived} :
                             Time[m] - t > Throttled[k].span

LEMMA LateIsLetThrough ==
  ASSUME WindowsBegan, NEW m \in Msgs, Late(m)
  PROVE  Reached(m) = {}
<1>. SUFFICES ASSUME NEW k \in DOMAIN thr, ReachLimit(k, m) PROVE FALSE
  BY DEF Reached
<1>1. Throttled[k].limit # 0 /\ Throttled[k].limit \in Int
  BY ThrottleAssumption DEF Late, WindowsBegan, ThrottleTypeOK
<1>2. Counts(k, m) /\ Counted(k, m).count > Throttled[k].limit
  BY <1>1 DEF ReachLimit
<1>3. Time[m] - thr[k].start > Throttled[k].span /\ Throttled[k].span > 0
  BY DEF Late, WindowsBegan
<1>4. Counted(k, m).count = 1
  BY <1>3 DEF Counted, WindowsBegan, ThrottleTypeOK
<1>. QED BY <1>1, <1>2, <1>4 DEF Counts

\* A throttle opens again, for any limits, timespans, messages and switching of the
\* throttles: a window that is open began with a message that has arrived, so a message
\* that is late enough begins a new one (throttle.cc:34-45).
THEOREM ThrottlesReopen == Spec => ThrottleReopens
<1>1. ASSUME WindowsBegan, CountInv, [Next]_vars, NEW m \in arrived' \ arrived, Late(m)
      PROVE  count'["thr"] = count["thr"]
  <2>1. m \in Msgs /\ (Drop(m) \/ NewMsg(m))
    <3>1. ASSUME NEW a \in Msgs, Drop(a) \/ NewMsg(a) PROVE a = m
      <4>1. arrived' = arrived \cup {a}
        BY <3>1 DEF Drop, NewMsg, Receive
      <4>. QED BY <4>1
    <3>2. arrived' # arrived
      OBVIOUS
    <3>3. /\ ~Toggle /\ ~Clear /\ ~ShortMode /\ ~UNCHANGED vars
          /\ \A i \in DOMAIN tabs : ~SwitchTab(i) /\ ~CloseTab(i)
          /\ \A sel \in Selections : ~SetFilter(sel)
          /\ \A l \in Levels : ~SetSev(l)
      BY <3>2, Zenon DEF Toggle, SetFilter, SetSev, SwitchTab, CloseTab, Clear, ShortMode, vars
    <3>4. (\E a \in Msgs : Drop(a)) \/ (\E a \in Msgs : NewMsg(a))
      BY <1>1, <3>3, Zenon DEF Next
    <3>5. PICK a \in Msgs : Drop(a) \/ NewMsg(a)
      BY <3>4, Zenon
    <3>. QED BY <3>1, <3>5, Zenon
  <2>2. Reached(m) = {}
    BY <1>1, <2>1, LateIsLetThrough
  <2>3. CASE Drop(m)
    <3>1. IsSuppressed(m)
      BY <2>2, <2>3 DEF Drop
    <3>2. count' = [count EXCEPT !["msgs"] = @ + 1, !["sup"] = @ + 1]
      BY <2>3, <3>1 DEF Drop
    <3>. QED BY <1>1, <3>2 DEF CountInv, Counters
  <2>4. CASE NewMsg(m)
    <3>1. PICK n : count' = [count EXCEPT !["msgs"] = @ + 1, !["deleted"] = @ + n]
      BY <2>4 DEF NewMsg
    <3>. QED BY <1>1, <3>1 DEF CountInv, Counters
  <2>. QED BY <2>1, <2>3, <2>4
<1>2. WindowsBegan /\ CountInv /\ [Next]_vars =>
        [\A m \in arrived' \ arrived :
           (\A k \in DOMAIN thr : /\ Throttled[k].limit # 0 /\ Throttled[k].span > 0
                                  /\ \A t \in {0} \cup {Time[a] : a \in arrived} :
                                       Time[m] - t > Throttled[k].span)
           => count'["thr"] = count["thr"]]_vars
  BY <1>1 DEF Late
<1>. QED BY InitWindows, WindowsInductive, InitCountInv, CountInductive, <1>2, PTL
         DEF Spec, ThrottleReopens
-----------------------------------------------------------------------------
(* The pool and its index.                                                 *)

\* What a tab is: its filter is none or one that was selected.
Filters == {NoFilter} \cup Selections
TabState == [filter : Filters, msgs : Seq(Msgs), thresh : 0 .. 3, shown : Seq(Msgs), gone : Nat]

TabTypes == tabs \in Seq(TabState) /\ cur \in 1 .. Len(tabs) /\ slider \in 0 .. 3

KeyedBy(d, k) == {m \in Msgs : Attr[d][m] = k}

KeysOf(d, s) == {Attr[d][m] : m \in ToSet(s)}

\* The sequence s, sorted by its keys.
ByKey(d, s) == [k \in KeysOf(d, s) |-> Keep(s, KeyedBy(d, k))]

\* The pool has each message once, all of them have arrived, and the index is the pool.
Indexed ==
  /\ IsInjective(pool) /\ ToSet(pool) \subseteq arrived /\ arrived \subseteq Msgs
  /\ \A d \in Dims : index[d] = ByKey(d, pool) /\ lists[d] = KeysOf(d, pool)

LEMMA SplitAt ==
  ASSUME NEW S, NEW s \in Seq(S), NEW n \in 0 .. Len(s)
  PROVE  /\ Oldest(s, n) \in Seq(S) /\ Len(Oldest(s, n)) = n
         /\ Rest(s, n) \in Seq(S) /\ Len(Rest(s, n)) = Len(s) - n
         /\ \A i \in 1 .. n : Oldest(s, n)[i] = s[i]
         /\ \A i \in 1 .. Len(s) - n : Rest(s, n)[i] = s[n + i]
BY DEF Oldest, Rest

LEMMA SplitIs ==
  ASSUME NEW S, NEW s \in Seq(S), NEW n \in 0 .. Len(s)
  PROVE  s = Oldest(s, n) \o Rest(s, n)
<1>1. /\ 1 \in 1 .. Len(s) + 1 /\ n \in 1 - 1 .. Len(s) /\ Len(s) \in n .. Len(s)
      /\ SubSeq(s, 1, Len(s)) = s
  OBVIOUS
<1>2. SubSeq(s, 1, n) \o SubSeq(s, n + 1, Len(s)) = SubSeq(s, 1, Len(s))
  BY <1>1, ConcatAdjacentSubSeq
<1>. QED BY <1>1, <1>2 DEF Oldest, Rest

\* What has not gone is the rest.
LEMMA NotGone ==
  ASSUME NEW s \in Seq(Msgs), IsInjective(s), NEW n \in 0 .. Len(s)
  PROVE  Keep(s, Msgs \ ToSet(Oldest(s, n))) = Rest(s, n)
<1>. DEFINE a == Oldest(s, n)
            b == Rest(s, n)
            T == Msgs \ ToSet(a)
<1>1. /\ a \in Seq(Msgs) /\ Len(a) = n /\ b \in Seq(Msgs) /\ Len(b) = Len(s) - n
      /\ \A i \in 1 .. n : a[i] = s[i]
      /\ \A i \in 1 .. Len(s) - n : b[i] = s[n + i]
  BY SplitAt
<1>2. s = a \o b
  BY SplitIs
<1>. HIDE DEF a, b
<1>3. ToSet(b) \subseteq T
  <2>. SUFFICES ASSUME NEW i \in DOMAIN a, NEW j \in DOMAIN b, a[i] = b[j] PROVE FALSE
    BY <1>1 DEF ToSet
  <2>1. i \in 1 .. n /\ j \in 1 .. Len(s) - n
    BY <1>1
  <2>2. s[i] = s[n + j] /\ i \in DOMAIN s /\ n + j \in DOMAIN s /\ i # n + j
    BY <1>1, <2>1
  <2>. QED BY <2>2 DEF IsInjective
<1>4. Keep(b, T) = b
  BY <1>1, <1>3, KeepAll
<1>5. Keep(a, T) = <<>>
  BY <1>1, KeepNone
<1>6. Keep(s, T) = Keep(a, T) \o Keep(b, T)
  BY <1>1, <1>2, KeepConcat
<1>7. <<>> \o b = b
  BY <1>1, ConcatEmptySeq
<1>. QED BY <1>4, <1>5, <1>6, <1>7 DEF a, b

LEMMA TrimIndexIs ==
  ASSUME NEW ix, NEW s \in Seq(Msgs), NEW gone, NEW d \in Dims, ix[d] = ByKey(d, s)
  PROVE  TrimIndex(ix, gone)[d] = ByKey(d, Keep(s, Msgs \ gone))
<1>. DEFINE T == Msgs \ gone
            r == Keep(s, T)
            f == TrimIndex(ix, gone)[d]
            g == ByKey(d, r)
            Left(k) == Keep(ix[d][k], T)
<1>1. r \in Seq(Msgs) /\ ToSet(r) = ToSet(s) \cap T
  BY KeepType, KeepSet
<1>2. f = [k \in {j \in DOMAIN ix[d] : Left(j) # <<>>} |-> Left(k)]
  BY DEF TrimIndex
<1>3. DOMAIN ix[d] = KeysOf(d, s) /\ \A k \in KeysOf(d, s) : ix[d][k] = Keep(s, KeyedBy(d, k))
  BY DEF ByKey
<1>4. ASSUME NEW k \in KeysOf(d, s) PROVE Left(k) = Keep(r, KeyedBy(d, k))
  <2>1. Keep(Keep(s, KeyedBy(d, k)), T) = Keep(s, KeyedBy(d, k) \cap T)
    BY KeepKeep
  <2>2. Keep(Keep(s, T), KeyedBy(d, k)) = Keep(s, T \cap KeyedBy(d, k))
    BY KeepKeep
  <2>3. T \cap KeyedBy(d, k) = KeyedBy(d, k) \cap T
    OBVIOUS
  <2>. QED BY <1>3, <2>1, <2>2, <2>3
<1>. HIDE DEF T, r, f, Left
<1>5. ASSUME NEW k PROVE k \in KeysOf(d, s) /\ Left(k) # <<>> <=> k \in KeysOf(d, r)
  <2>1. ASSUME k \in KeysOf(d, r) PROVE k \in KeysOf(d, s) /\ Left(k) # <<>>
    <3>1. PICK m \in ToSet(r) : Attr[d][m] = k
      BY <2>1 DEF KeysOf
    <3>2. m \in ToSet(s) /\ m \in Msgs
      BY <1>1, <3>1 DEF T
    <3>3. m \in ToSet(Keep(r, KeyedBy(d, k)))
      BY <1>1, <3>1, <3>2, KeepSet DEF KeyedBy
    <3>4. Keep(r, KeyedBy(d, k)) # <<>>
      BY <3>3 DEF ToSet
    <3>5. k \in KeysOf(d, s)
      BY <3>1, <3>2 DEF KeysOf
    <3>. QED BY <1>4, <3>4, <3>5
  <2>2. ASSUME k \in KeysOf(d, s), k \notin KeysOf(d, r) PROVE Left(k) = <<>>
    <3>1. ToSet(r) \cap KeyedBy(d, k) = {}
      BY <2>2 DEF KeysOf, KeyedBy
    <3>2. Keep(r, KeyedBy(d, k)) = <<>>
      BY <1>1, <3>1, KeepNone
    <3>. QED BY <1>4, <2>2, <3>2
  <2>. QED BY <2>1, <2>2
<1>6. {j \in DOMAIN ix[d] : Left(j) # <<>>} = KeysOf(d, r)
  BY <1>3, <1>5
<1>7. f = [k \in KeysOf(d, r) |-> Left(k)]
  BY <1>2, <1>6
<1>8. \A k \in KeysOf(d, r) : Left(k) = Keep(r, KeyedBy(d, k))
  BY <1>4, <1>5
<1>9. f = g
  BY <1>7, <1>8 DEF ByKey
<1>. QED BY <1>9 DEF f, r, T

LEMMA AddToIndexIs ==
  ASSUME NEW ix, NEW s \in Seq(Msgs), NEW m \in Msgs, NEW d \in Dims, ix[d] = ByKey(d, s)
  PROVE  AddToIndex(ix, m)[d] = ByKey(d, Append(s, m))
<1>. DEFINE r == Append(s, m)
            f == AddToIndex(ix, m)[d]
            Old(k) == IF k \in DOMAIN ix[d] THEN ix[d][k] ELSE <<>>
            New(k) == IF k = Attr[d][m] THEN Append(Old(k), m) ELSE Old(k)
<1>1. f = [k \in DOMAIN ix[d] \cup {Attr[d][m]} |-> New(k)]
  BY DEF AddToIndex
<1>2. DOMAIN ix[d] = KeysOf(d, s) /\ \A k \in KeysOf(d, s) : ix[d][k] = Keep(s, KeyedBy(d, k))
  BY DEF ByKey
<1>3. ToSet(r) = ToSet(s) \cup {m}
  BY ToSetAppend
<1>4. ASSUME NEW k PROVE Old(k) = Keep(s, KeyedBy(d, k))
  <2>1. CASE k \in KeysOf(d, s)
    BY <1>2, <2>1
  <2>2. CASE k \notin KeysOf(d, s)
    <3>1. ToSet(s) \cap KeyedBy(d, k) = {}
      BY <2>2 DEF KeysOf, KeyedBy
    <3>2. Keep(s, KeyedBy(d, k)) = <<>>
      BY <3>1, KeepNone
    <3>. QED BY <1>2, <2>2, <3>2
  <2>. QED BY <2>1, <2>2
<1>. HIDE DEF Old, f, r
<1>5. ASSUME NEW k PROVE New(k) = Keep(r, KeyedBy(d, k))
  <2>1. Keep(r, KeyedBy(d, k)) = IF m \in KeyedBy(d, k) THEN Append(Keep(s, KeyedBy(d, k)), m)
                                 ELSE Keep(s, KeyedBy(d, k))
    BY KeepAppend DEF r
  <2>2. m \in KeyedBy(d, k) <=> k = Attr[d][m]
    BY DEF KeyedBy
  <2>. QED BY <1>4, <2>1, <2>2
<1>6. DOMAIN ix[d] \cup {Attr[d][m]} = KeysOf(d, r)
  BY <1>2, <1>3 DEF KeysOf
<1>. HIDE DEF New
<1>. QED BY <1>1, <1>5, <1>6 DEF ByKey, f, r

LEMMA SplitAppend ==
  ASSUME NEW s \in Seq(Msgs), NEW m \in Msgs, NEW n \in 0 .. Len(s)
  PROVE  /\ Oldest(Append(s, m), n) = Oldest(s, n)
         /\ Rest(Append(s, m), n) = Append(Rest(s, n), m)
<1>. DEFINE p == Append(s, m)
            q == Rest(s, n)
<1>1. /\ p \in Seq(Msgs) /\ Len(p) = Len(s) + 1 /\ n \in 0 .. Len(p) /\ p[Len(s) + 1] = m
      /\ \A i \in 1 .. Len(s) : p[i] = s[i]
  OBVIOUS
<1>2. /\ q \in Seq(Msgs) /\ Len(q) = Len(s) - n /\ \A i \in 1 .. Len(s) - n : q[i] = s[n + i]
      /\ Oldest(s, n) \in Seq(Msgs) /\ Len(Oldest(s, n)) = n
      /\ \A i \in 1 .. n : Oldest(s, n)[i] = s[i]
  BY SplitAt
<1>. HIDE DEF p, q
<1>3. /\ Oldest(p, n) \in Seq(Msgs) /\ Len(Oldest(p, n)) = n
      /\ Rest(p, n) \in Seq(Msgs) /\ Len(Rest(p, n)) = Len(p) - n
      /\ \A i \in 1 .. n : Oldest(p, n)[i] = p[i]
      /\ \A i \in 1 .. Len(p) - n : Rest(p, n)[i] = p[n + i]
  BY <1>1, SplitAt
<1>4. ASSUME NEW i \in 1 .. n PROVE Oldest(p, n)[i] = Oldest(s, n)[i]
  <2>1. i \in 1 .. Len(s)
    OBVIOUS
  <2>. QED BY <1>1, <1>2, <1>3, <2>1
<1>5. Oldest(p, n) = Oldest(s, n)
  BY <1>2, <1>3, <1>4, SeqEqual
<1>. DEFINE r == Append(q, m)
<1>6. /\ r \in Seq(Msgs) /\ Len(r) = Len(q) + 1 /\ r[Len(q) + 1] = m
      /\ \A i \in 1 .. Len(q) : r[i] = q[i]
  BY <1>2
<1>. HIDE DEF r
<1>7. ASSUME NEW i \in 1 .. Len(r) PROVE Rest(p, n)[i] = r[i]
  <2>1. Rest(p, n)[i] = p[n + i]
    BY <1>1, <1>2, <1>3, <1>6
  <2>2. CASE i = Len(q) + 1
    <3>1. n + i = Len(s) + 1
      BY <1>2, <2>2
    <3>. QED BY <1>1, <1>6, <2>1, <2>2, <3>1
  <2>3. CASE i \in 1 .. Len(q)
    <3>1. n + i \in 1 .. Len(s) /\ i \in 1 .. Len(s) - n
      BY <1>2, <2>3
    <3>. QED BY <1>1, <1>2, <1>6, <2>1, <2>3, <3>1
  <2>. QED BY <1>2, <1>6, <2>2, <2>3
<1>8. Len(Rest(p, n)) = Len(r)
  BY <1>1, <1>2, <1>3, <1>6
<1>9. Rest(p, n) = r
  BY <1>3, <1>6, <1>7, <1>8, SeqEqual
<1>. QED BY <1>5, <1>9 DEF p, q, r

\* How much of the pool goes when a message comes.
Gone(m) == IF MaxMsgs > 0 THEN Excess(Append(pool, m), MaxMsgs) ELSE 0

LEMMA GoneIs ==
  ASSUME CountInv, NEW m \in Msgs
  PROVE  /\ Gone(m) \in 0 .. Len(pool)
         /\ MaxMsgs > 0 => Len(pool) - Gone(m) < MaxMsgs
<1>1. pool \in Seq(Msgs) /\ Len(Append(pool, m)) = Len(pool) + 1 /\ Len(pool) \in Nat
  BY DEF CountInv
<1>. QED BY <1>1, ViewerAssumption DEF Gone, Excess

LEMMA NewMsgIs ==
  ASSUME CountInv, NEW m \in Msgs, NewMsg(m)
  PROVE  /\ pool' = Append(Rest(pool, Gone(m)), m)
         /\ LET i1 == TrimIndex(index, ToSet(Oldest(pool, Gone(m))))
                i2 == AddToIndex(i1, m)
            IN  index' = i2 /\ lists' = Refilled(Refilled(lists, index, i1), i1, i2)
<1>1. Gone(m) \in 0 .. Len(pool) /\ pool \in Seq(Msgs)
  BY GoneIs DEF CountInv
<1>2. /\ Oldest(Append(pool, m), Gone(m)) = Oldest(pool, Gone(m))
      /\ Rest(Append(pool, m), Gone(m)) = Append(Rest(pool, Gone(m)), m)
  BY <1>1, SplitAppend
<1>. QED BY <1>2 DEF NewMsg, Gone

LEMMA NewMsgIndexed ==
  ASSUME CountInv, Indexed, NEW m \in Msgs, NewMsg(m)
  PROVE  Indexed'
<1>. DEFINE n == Gone(m)
            q == Rest(pool, n)
            gone == ToSet(Oldest(pool, n))
            i1 == TrimIndex(index, gone)
            i2 == AddToIndex(i1, m)
<1>1. pool \in Seq(Msgs) /\ IsInjective(pool) /\ n \in 0 .. Len(pool)
  BY GoneIs DEF CountInv, Indexed
<1>2. /\ q \in Seq(Msgs) /\ Len(q) = Len(pool) - n
      /\ \A i \in 1 .. Len(pool) - n : q[i] = pool[n + i]
  BY <1>1, SplitAt
<1>3. pool' = Append(q, m) /\ index' = i2 /\ lists' = Refilled(Refilled(lists, index, i1), i1, i2)
  BY NewMsgIs
<1>4. Keep(pool, Msgs \ gone) = q
  BY <1>1, NotGone
<1>. HIDE DEF n, gone
<1>5. ASSUME NEW d \in Dims
      PROVE  index'[d] = ByKey(d, pool') /\ lists'[d] = KeysOf(d, pool')
  <2>1. index[d] = ByKey(d, pool) /\ lists[d] = KeysOf(d, pool)
    BY DEF Indexed
  <2>2. i1[d] = ByKey(d, q)
    BY <1>1, <1>4, <2>1, TrimIndexIs
  <2>. HIDE DEF i1, q
  <2>3. i2[d] = ByKey(d, Append(q, m))
    BY <1>2, <2>2, AddToIndexIs
  <2>. HIDE DEF i2
  <2>4. \A s : DOMAIN ByKey(d, s) = KeysOf(d, s)
    BY DEF ByKey
  <2>5. lists'[d] = DOMAIN i2[d]
    BY <1>3, <2>1, <2>4 DEF Refilled
  <2>. QED BY <1>3, <2>3, <2>4, <2>5
<1>. HIDE DEF q, i1, i2
<1>0. \A i \in 1 .. Len(q) : n + i \in DOMAIN pool /\ q[i] = pool[n + i] /\ n + i \in Nat
  BY <1>1, <1>2
<1>6. ToSet(q) \subseteq ToSet(pool)
  <2>. SUFFICES ASSUME NEW i \in 1 .. Len(q) PROVE q[i] \in ToSet(pool)
    BY <1>2 DEF ToSet
  <2>. QED BY <1>0 DEF ToSet
<1>7. ToSet(pool') = ToSet(q) \cup {m}
  BY <1>2, <1>3, ToSetAppend
<1>8. m \notin arrived /\ arrived' = arrived \cup {m}
  BY DEF NewMsg, Receive
<1>9. ToSet(pool') \subseteq arrived' /\ arrived' \subseteq Msgs
  BY <1>6, <1>7, <1>8 DEF Indexed
<1>10. IsInjective(pool')
  <2>. SUFFICES ASSUME NEW i \in DOMAIN pool', NEW j \in DOMAIN pool', pool'[i] = pool'[j]
                PROVE  i = j
    BY DEF IsInjective
  <2>1. /\ DOMAIN pool' = 1 .. Len(q) + 1 /\ pool'[Len(q) + 1] = m
        /\ \A k \in 1 .. Len(q) : pool'[k] = q[k]
    BY <1>2, <1>3
  <2>2. \A k \in 1 .. Len(q) : q[k] # m
    BY <1>2, <1>6, <1>8 DEF Indexed, ToSet
  <2>3. ASSUME NEW k \in 1 .. Len(q), NEW l \in 1 .. Len(q), q[k] = q[l] PROVE k = l
    <3>1. n + k = n + l
      BY <1>0, <1>1, <2>3 DEF IsInjective
    <3>. QED BY <1>1, <3>1
  <2>4. i = Len(q) + 1 \/ i \in 1 .. Len(q)
    BY <1>2, <2>1
  <2>5. j = Len(q) + 1 \/ j \in 1 .. Len(q)
    BY <1>2, <2>1
  <2>. QED BY <2>1, <2>2, <2>3, <2>4, <2>5
<1>. QED BY <1>5, <1>9, <1>10 DEF Indexed

LEMMA EmptyIndexed ==
  ASSUME arrived' \subseteq Msgs, pool' = <<>>,
         index' = [d \in Dims |-> <<>>], lists' = [d \in Dims |-> {}]
  PROVE  Indexed'
<1>. DEFINE z == <<>>
<1>1. ToSet(z) = {} /\ IsInjective(z) /\ DOMAIN z = {}
  BY DEF ToSet, IsInjective
<1>2. \A d \in Dims : KeysOf(d, z) = {}
  BY <1>1 DEF KeysOf
<1>3. \A d \in Dims : ByKey(d, z) = z
  BY <1>2 DEF ByKey
<1>. HIDE DEF z
<1>4. pool' = z /\ index' = [d \in Dims |-> z]
  BY DEF z
<1>. QED BY <1>1, <1>2, <1>3, <1>4 DEF Indexed

-----------------------------------------------------------------------------
(* What setFilter() computes.                                              *)

\* Where merge() is after n elements: j of them are from b.
Taken(a, b, n) == {j \in 0 .. Len(b) : n - j \in 0 .. Len(a)}

FromB(a, b, i, j) == j < Len(b) /\ (i = Len(a) \/ Addr[b[j + 1]] < Addr[a[i + 1]])

TakenSteps(a, b, f) ==
  /\ f[0] = 0
  /\ \A n \in 1 .. Len(a) + Len(b) :
       f[n] = IF FromB(a, b, n - 1 - f[n - 1], f[n - 1]) THEN f[n - 1] + 1 ELSE f[n - 1]

LEMMA TakesOne ==
  ASSUME NEW a \in Seq(Msgs), NEW b \in Seq(Msgs), NEW n \in 1 .. Len(a) + Len(b),
         NEW j \in Taken(a, b, n - 1)
  PROVE  (IF FromB(a, b, n - 1 - j, j) THEN j + 1 ELSE j) \in Taken(a, b, n)
BY DEF Taken, FromB

LEMMA MergeIs ==
  ASSUME NEW a \in Seq(Msgs), NEW b \in Seq(Msgs)
  PROVE  \E f : /\ TakenSteps(a, b, f)
                /\ \A n \in 0 .. Len(a) + Len(b) : f[n] \in Taken(a, b, n)
                /\ Merge(a, b) = [n \in 1 .. Len(a) + Len(b) |->
                                    IF f[n] > f[n - 1] THEN b[f[n]] ELSE a[n - f[n]]]
<1>. DEFINE l == Len(a) + Len(b)
            Q(f) == f = [n \in 0 .. l |->
                           IF n = 0 THEN 0
                           ELSE IF FromB(a, b, n - 1 - f[n - 1], f[n - 1]) THEN f[n - 1] + 1
                           ELSE f[n - 1]]
            c == CHOOSE f : Q(f)
            V == [n \in 0 .. l |-> Taken(a, b, n)]
            F == [n \in 1 .. l |->
                    [j \in Taken(a, b, n - 1) |-> IF FromB(a, b, n - 1 - j, j) THEN j + 1 ELSE j]]
<1>0. l \in Nat /\ \A n \in 0 .. l : V[n] = Taken(a, b, n)
  OBVIOUS
<1>1. \A n \in 1 .. l : \A j \in Taken(a, b, n - 1) :
        F[n][j] = (IF FromB(a, b, n - 1 - j, j) THEN j + 1 ELSE j)
  OBVIOUS
<1>2. 0 \in Taken(a, b, 0)
  BY DEF Taken
<1>3. \A n \in 1 .. l : \A j \in Taken(a, b, n - 1) : F[n][j] \in Taken(a, b, n)
  BY <1>1, TakesOne
<1>. HIDE DEF V, F
<1>4. PICK f : /\ f = [n \in 0 .. l |-> f[n]] /\ f[0] = 0
               /\ \A n \in 1 .. l : f[n] = F[n][f[n - 1]]
               /\ \A n \in 0 .. l : f[n] \in V[n]
  <2>. DEFINE z == 0
  <2>1. Within(z, F, l, V)
    BY <1>0, <1>2, <1>3 DEF Within
  <2>. HIDE DEF l, z
  <2>2. \E f : RecursionWithin(z, F, l, V, f)
    BY <1>0, <2>1, RecursionChosen
  <2>. QED BY <2>2 DEF z, RecursionWithin
<1>5. Q(f)
  <2>1. ASSUME NEW n \in 1 .. l
        PROVE  f[n] = IF FromB(a, b, n - 1 - f[n - 1], f[n - 1]) THEN f[n - 1] + 1 ELSE f[n - 1]
    <3>1. n - 1 \in 0 .. l
      BY <1>0
    <3>2. f[n - 1] \in Taken(a, b, n - 1)
      BY <1>0, <1>4, <3>1
    <3>. QED BY <1>1, <1>4, <3>2
  <2>2. \A n \in 0 .. l : n # 0 => n \in 1 .. l
    BY <1>0
  <2>. HIDE DEF l
  <2>. QED BY <1>4, <2>1, <2>2
<1>6. Q(c) => TakenSteps(a, b, c)
  <2>. DEFINE h == [n \in 0 .. l |->
                      IF n = 0 THEN 0
                      ELSE IF FromB(a, b, n - 1 - c[n - 1], c[n - 1]) THEN c[n - 1] + 1
                      ELSE c[n - 1]]
  <2>1. h[0] = 0
    BY <1>0
  <2>2. ASSUME NEW n \in 1 .. l
        PROVE  h[n] = IF FromB(a, b, n - 1 - c[n - 1], c[n - 1]) THEN c[n - 1] + 1 ELSE c[n - 1]
    <3>1. n \in 0 .. l /\ n # 0
      BY <1>0
    <3>. QED BY <3>1
  <2>3. Q(c) => c = h
    OBVIOUS
  <2>. HIDE DEF h, Q, c
  <2>. QED BY <2>1, <2>2, <2>3 DEF TakenSteps
<1>7. Merge(a, b) = [n \in 1 .. l |-> IF c[n] > c[n - 1] THEN b[c[n]] ELSE a[n - c[n]]]
  BY DEF Merge, FromB
<1>. HIDE DEF Q
<1>8. TakenSteps(a, b, c)
  BY <1>5, <1>6
<1>9. \A n \in 0 .. l : c[n] \in V[n]
  <2>1. c[0] \in V[0]
    BY <1>0, <1>2, <1>8 DEF TakenSteps
  <2>2. ASSUME NEW n \in 1 .. l, c[n - 1] \in V[n - 1] PROVE c[n] \in V[n]
    <3>1. n - 1 \in 0 .. l /\ n \in 0 .. l
      BY <1>0
    <3>2. c[n - 1] \in Taken(a, b, n - 1)
      BY <1>0, <2>2, <3>1
    <3>3. c[n] = IF FromB(a, b, n - 1 - c[n - 1], c[n - 1]) THEN c[n - 1] + 1 ELSE c[n - 1]
      BY <1>8 DEF TakenSteps
    <3>4. c[n] \in Taken(a, b, n)
      BY <3>2, <3>3, TakesOne
    <3>. QED BY <1>0, <3>1, <3>4
  <2>. HIDE DEF l, c
  <2>. QED BY <1>0, <2>1, <2>2, StepsInvariant
<1>. HIDE DEF c
<1>. QED BY <1>0, <1>7, <1>8, <1>9

LEMMA MergeFacts ==
  ASSUME NEW a \in Seq(Msgs), NEW b \in Seq(Msgs)
  PROVE  /\ Merge(a, b) \in Seq(Msgs) /\ Len(Merge(a, b)) = Len(a) + Len(b)
         /\ ToSet(Merge(a, b)) \subseteq ToSet(a) \cup ToSet(b)
<1>. DEFINE l == Len(a) + Len(b)
            r == Merge(a, b)
<1>1. PICK f : /\ TakenSteps(a, b, f)
               /\ \A n \in 0 .. l : f[n] \in Taken(a, b, n)
               /\ r = [n \in 1 .. l |-> IF f[n] > f[n - 1] THEN b[f[n]] ELSE a[n - f[n]]]
  BY MergeIs
<1>2. ASSUME NEW n \in 1 .. l
      PROVE  \/ f[n] > f[n - 1] /\ f[n] \in 1 .. Len(b)
             \/ ~(f[n] > f[n - 1]) /\ n - f[n] \in 1 .. Len(a)
  <2>1. n \in 0 .. l /\ n - 1 \in 0 .. l
    OBVIOUS
  <2>2. f[n] \in Taken(a, b, n) /\ f[n - 1] \in Taken(a, b, n - 1)
    BY <1>1, <2>1
  <2>3. f[n] = f[n - 1] + 1 \/ f[n] = f[n - 1]
    BY <1>1 DEF TakenSteps
  <2>. QED BY <2>2, <2>3, SMTT(30) DEF Taken
<1>3. DOMAIN a = 1 .. Len(a) /\ DOMAIN b = 1 .. Len(b) /\ l \in Nat
  OBVIOUS
<1>4. ASSUME NEW n \in 1 .. l PROVE r[n] \in ToSet(a) \cup ToSet(b)
  <2>1. r[n] = IF f[n] > f[n - 1] THEN b[f[n]] ELSE a[n - f[n]]
    BY <1>1
  <2>. HIDE DEF r, l
  <2>. QED BY <1>2, <1>3, <2>1 DEF ToSet
<1>5. ToSet(a) \subseteq Msgs /\ ToSet(b) \subseteq Msgs
  BY DEF ToSet
<1>6. \A n \in 1 .. l : r[n] \in Msgs
  BY <1>4, <1>5
<1>7. r \in [1 .. l -> Msgs] /\ DOMAIN r = 1 .. l
  BY <1>1, <1>6
<1>. HIDE DEF r, l
<1>8. r \in Seq(Msgs) /\ Len(r) = l
  BY <1>3, <1>7
<1>9. ToSet(r) \subseteq ToSet(a) \cup ToSet(b)
  BY <1>4, <1>7 DEF ToSet
<1>. QED BY <1>8, <1>9 DEF r, l

LEMMA MergeFirst ==
  ASSUME NEW b \in Seq(Msgs)
  PROVE  Merge(<<>>, b) = b
<1>. DEFINE a == <<>>
            r == Merge(a, b)
<1>1. a \in Seq(Msgs) /\ Len(a) = 0 /\ Len(b) \in Nat
  OBVIOUS
<1>. HIDE DEF a
<1>2. PICK f : /\ TakenSteps(a, b, f)
               /\ \A n \in 0 .. Len(a) + Len(b) : f[n] \in Taken(a, b, n)
               /\ r = [n \in 1 .. Len(a) + Len(b) |->
                         IF f[n] > f[n - 1] THEN b[f[n]] ELSE a[n - f[n]]]
  BY <1>1, MergeIs
<1>3. ASSUME NEW n \in 0 .. Len(b) PROVE f[n] = n
  BY <1>1, <1>2 DEF Taken
<1>4. ASSUME NEW n \in 1 .. Len(b) PROVE r[n] = b[n]
  <2>1. f[n] = n /\ f[n - 1] = n - 1
    BY <1>1, <1>3
  <2>. QED BY <1>1, <1>2, <2>1
<1>5. DOMAIN r = 1 .. Len(b)
  BY <1>1, <1>2
<1>6. r \in Seq(Msgs)
  BY <1>1, MergeFacts
<1>. HIDE DEF r
<1>7. Len(r) = Len(b)
  BY <1>1, <1>5, <1>6
<1>8. r = b
  BY <1>4, <1>6, <1>7, SeqEqual
<1>. QED BY <1>8 DEF r, a

LEMMA KeysFinite ==
  ASSUME NEW d, NEW s \in Seq(Msgs)
  PROVE  IsFiniteSet(KeysOf(d, s))
<1>. DEFINE f == [i \in 1 .. Len(s) |-> Attr[d][s[i]]]
<1>1. ToSet(s) = {s[i] : i \in 1 .. Len(s)} /\ Len(s) \in Nat
  BY DEF ToSet
<1>2. f \in Surjection(1 .. Len(s), KeysOf(d, s))
  BY <1>1 DEF Surjection, KeysOf
<1>3. IsFiniteSet(1 .. Len(s))
  BY <1>1, FS_Interval
<1>. HIDE DEF f
<1>. QED BY <1>2, <1>3, FS_Surjection

\* The chosen items, in some order.
LEMMA SetToSeqIs ==
  ASSUME NEW S, IsFiniteSet(S)
  PROVE  /\ SetToSeq(S) \in [1 .. Cardinality(S) -> S]
         /\ Cardinality(S) \in Nat
<1>1. Cardinality(S) \in Nat /\ ExistsBijection(1 .. Cardinality(S), S)
  BY FS_CardinalityType
<1>2. \E f \in [1 .. Cardinality(S) -> S] : IsInjective(f)
  BY <1>1 DEF ExistsBijection, Bijection, Injection
<1>. QED BY <1>1, <1>2 DEF SetToSeq

\* The index has sequences of messages, each under a key that they have.
LEMMA IndexFacts ==
  ASSUME CountInv, Indexed, NEW d \in Dims
  PROVE  /\ DOMAIN index[d] = KeysOf(d, pool) /\ IsFiniteSet(DOMAIN index[d])
         /\ \A k \in DOMAIN index[d] : /\ index[d][k] = Keep(pool, KeyedBy(d, k))
                                       /\ index[d][k] \in Seq(Msgs)
                                       /\ ToSet(index[d][k]) = ToSet(pool) \cap KeyedBy(d, k)
<1>1. index[d] = ByKey(d, pool) /\ pool \in Seq(Msgs)
  BY DEF CountInv, Indexed
<1>2. /\ DOMAIN index[d] = KeysOf(d, pool)
      /\ \A k \in DOMAIN index[d] : index[d][k] = Keep(pool, KeyedBy(d, k))
  BY <1>1 DEF ByKey
<1>. QED BY <1>1, <1>2, KeysFinite, KeepType, KeepSet

\* Messages of the pool that have one of the items.
WithItems(d, items) ==
  {s \in Seq(Msgs) : \A m \in ToSet(s) : m \in ToSet(pool) /\ Attr[d][m] \in items}

MergedSteps(d, found, c) ==
  /\ c[0] = <<>>
  /\ \A i \in 1 .. Len(found) : c[i] = Merge(c[i - 1], index[d][found[i]])

LEMMA SelectedIs ==
  ASSUME CountInv, Indexed, NEW d \in Dims, NEW items
  PROVE  LET found == SetToSeq(items \cap DOMAIN index[d])
         IN  \E c : /\ MergedSteps(d, found, c)
                    /\ \A i \in 0 .. Len(found) : c[i] \in WithItems(d, items)
                    /\ Selected(d, items) = c[Len(found)]
<1>. DEFINE S == items \cap DOMAIN index[d]
            found == SetToSeq(S)
            l == Len(found)
            W == WithItems(d, items)
            Q(f) == f = [i \in 0 .. l |-> IF i = 0 THEN <<>> ELSE Merge(f[i - 1], index[d][found[i]])]
            c == CHOOSE f : Q(f)
            V == [i \in 0 .. l |-> W]
            F == [i \in 1 .. l |-> [v \in W |-> Merge(v, index[d][found[i]])]]
            z == <<>>
<1>1. IsFiniteSet(S)
  BY IndexFacts, FS_Subset
<1>2. found \in [1 .. Cardinality(S) -> S] /\ Cardinality(S) \in Nat
  BY <1>1, SetToSeqIs
<1>. HIDE DEF S, found
<1>3. found \in Seq(S) /\ l \in Nat /\ \A i \in 1 .. l : found[i] \in S
  BY <1>2
<1>4. ASSUME NEW i \in 1 .. l, NEW v \in W PROVE Merge(v, index[d][found[i]]) \in W
  <2>. DEFINE k == found[i]
  <2>1. k \in items /\ k \in DOMAIN index[d]
    BY <1>3 DEF S
  <2>. HIDE DEF k
  <2>2. index[d][k] \in Seq(Msgs) /\ ToSet(index[d][k]) = ToSet(pool) \cap KeyedBy(d, k)
    BY <2>1, IndexFacts
  <2>3. v \in Seq(Msgs) /\ \A m \in ToSet(v) : m \in ToSet(pool) /\ Attr[d][m] \in items
    BY DEF WithItems
  <2>4. /\ Merge(v, index[d][k]) \in Seq(Msgs)
        /\ ToSet(Merge(v, index[d][k])) \subseteq ToSet(v) \cup ToSet(index[d][k])
    BY <2>2, <2>3, MergeFacts
  <2>. QED BY <2>1, <2>2, <2>3, <2>4 DEF WithItems, KeyedBy, k
<1>5. z \in W
  <2>1. z \in Seq(Msgs) /\ ToSet(z) = {}
    BY DEF ToSet
  <2>. HIDE DEF z
  <2>. QED BY <2>1 DEF WithItems
<1>. HIDE DEF W, z
<1>6. /\ \A i \in 0 .. l : V[i] = W
      /\ \A i \in 1 .. l : \A v \in W : F[i][v] = Merge(v, index[d][found[i]])
  OBVIOUS
<1>. HIDE DEF V, F
<1>7. Within(z, F, l, V)
  <2>. HIDE DEF l
  <2>1. \A i \in 1 .. l : i - 1 \in 0 .. l /\ i \in 0 .. l
    BY <1>3
  <2>2. 0 \in 0 .. l
    BY <1>3
  <2>. QED BY <1>4, <1>5, <1>6, <2>1, <2>2 DEF Within
<1>8. PICK f : RecursionWithin(z, F, l, V, f)
  <2>. HIDE DEF l
  <2>. QED BY <1>3, <1>7, RecursionChosen
<1>9. Q(f)
  <2>1. ASSUME NEW i \in 1 .. l PROVE f[i] = Merge(f[i - 1], index[d][found[i]])
    <3>1. i - 1 \in 0 .. l
      BY <1>3
    <3>2. f[i - 1] \in W /\ f[i] = F[i][f[i - 1]]
      BY <1>6, <1>8, <3>1 DEF RecursionWithin
    <3>. QED BY <1>6, <3>2
  <2>2. \A i \in 0 .. l : i # 0 => i \in 1 .. l
    BY <1>3
  <2>3. f[0] = <<>> /\ f = [i \in 0 .. l |-> f[i]]
    BY <1>8 DEF RecursionWithin, z
  <2>. HIDE DEF l
  <2>. QED BY <2>1, <2>2, <2>3
<1>10. Q(c) => MergedSteps(d, found, c)
  <2>. DEFINE h == [i \in 0 .. l |-> IF i = 0 THEN <<>> ELSE Merge(c[i - 1], index[d][found[i]])]
  <2>1. h[0] = <<>>
    BY <1>3
  <2>2. ASSUME NEW i \in 1 .. l PROVE h[i] = Merge(c[i - 1], index[d][found[i]])
    <3>1. i \in 0 .. l /\ i # 0
      BY <1>3
    <3>. QED BY <3>1
  <2>3. Q(c) => c = h
    OBVIOUS
  <2>. HIDE DEF h, Q, c
  <2>. QED BY <2>1, <2>2, <2>3 DEF MergedSteps
<1>11. Selected(d, items) = c[l]
  BY DEF Selected, found, S
<1>. HIDE DEF Q
<1>12. MergedSteps(d, found, c)
  BY <1>9, <1>10
<1>13. \A i \in 0 .. l : c[i] \in V[i]
  <2>1. c[0] \in V[0]
    BY <1>3, <1>5, <1>6, <1>12 DEF MergedSteps, z
  <2>2. ASSUME NEW i \in 1 .. l, c[i - 1] \in V[i - 1] PROVE c[i] \in V[i]
    <3>1. i - 1 \in 0 .. l /\ i \in 0 .. l
      BY <1>3
    <3>2. c[i - 1] \in W
      BY <1>6, <2>2, <3>1
    <3>3. c[i] = Merge(c[i - 1], index[d][found[i]])
      BY <1>12 DEF MergedSteps
    <3>. QED BY <1>4, <1>6, <3>1, <3>2, <3>3
  <2>. HIDE DEF l, c
  <2>. QED BY <1>3, <2>1, <2>2, StepsInvariant
<1>. HIDE DEF c
<1>14. \A i \in 0 .. l : c[i] \in W
  BY <1>6, <1>13
<1>. QED BY <1>11, <1>12, <1>14 DEF W, found, S

\* One item finds its messages, in order of arrival.
LEMMA SelectedOne ==
  ASSUME CountInv, Indexed, NEW d \in Dims, NEW k \in DOMAIN index[d]
  PROVE  Selected(d, {k}) = Keep(pool, KeyedBy(d, k))
<1>. DEFINE found == SetToSeq({k} \cap DOMAIN index[d])
<1>1. {k} \cap DOMAIN index[d] = {k}
  OBVIOUS
<1>2. IsFiniteSet({k}) /\ Cardinality({k}) = 1
  BY FS_Singleton
<1>3. found \in [1 .. 1 -> {k}]
  BY <1>1, <1>2, SetToSeqIs
<1>. HIDE DEF found
<1>4. Len(found) = 1 /\ found[1] = k
  BY <1>3
<1>5. PICK c : MergedSteps(d, found, c) /\ Selected(d, {k}) = c[Len(found)]
  BY SelectedIs DEF found
<1>6. c[0] = <<>> /\ c[1] = Merge(c[0], index[d][k])
  BY <1>4, <1>5 DEF MergedSteps
<1>7. index[d][k] = Keep(pool, KeyedBy(d, k)) /\ index[d][k] \in Seq(Msgs)
  BY IndexFacts
<1>8. Merge(<<>>, index[d][k]) = index[d][k]
  BY <1>7, MergeFirst
<1>. QED BY <1>4, <1>5, <1>6, <1>7, <1>8

LEMMA SelectedFacts ==
  ASSUME CountInv, Indexed, NEW d \in Dims, NEW items
  PROVE  /\ Selected(d, items) \in Seq(Msgs)
         /\ \A m \in ToSet(Selected(d, items)) : m \in ToSet(pool) /\ Attr[d][m] \in items
<1>. DEFINE found == SetToSeq(items \cap DOMAIN index[d])
<1>1. PICK c : /\ \A i \in 0 .. Len(found) : c[i] \in WithItems(d, items)
               /\ Selected(d, items) = c[Len(found)]
  BY SelectedIs
<1>2. found \in Seq(items \cap DOMAIN index[d])
  <2>1. IsFiniteSet(items \cap DOMAIN index[d])
    BY IndexFacts, FS_Subset
  <2>. QED BY <2>1, SetToSeqIs
<1>. HIDE DEF found
<1>3. Selected(d, items) \in WithItems(d, items)
  BY <1>1, <1>2
<1>. QED BY <1>3 DEF WithItems

\* The walk of list_intersect().
Walks(a, b) ==
  {w \in [i : Nat \ {0}, j : Nat \ {0}, out : Seq(Msgs)] : ToSet(w.out) \subseteq ToSet(a) \cap ToSet(b)}

LEMMA WalkIs ==
  ASSUME NEW i \in Nat \ {0}, NEW j \in Nat \ {0}, NEW out \in Seq(Msgs), NEW a, NEW b,
         ToSet(out) \subseteq ToSet(a) \cap ToSet(b)
  PROVE  Walk(i, j, out) \in Walks(a, b)
BY DEF Walk, Walks

LEMMA WalkOnFacts ==
  ASSUME NEW a \in Seq(Msgs), NEW b \in Seq(Msgs), NEW w \in Walks(a, b)
  PROVE  WalkOn(a, b, w) \in Walks(a, b)
<1>1. /\ w.i \in Nat \ {0} /\ w.j \in Nat \ {0} /\ w.out \in Seq(Msgs)
      /\ ToSet(w.out) \subseteq ToSet(a) \cap ToSet(b)
  BY DEF Walks
<1>. DEFINE i == w.i
            j == w.j
            out == w.out
<1>2. CASE i > Len(a) \/ j > Len(b)
  BY <1>2 DEF WalkOn
<1>3. CASE ~(i > Len(a) \/ j > Len(b))
  <2>1. i \in 1 .. Len(a) /\ j \in 1 .. Len(b) /\ i + 1 \in Nat \ {0} /\ j + 1 \in Nat \ {0}
    BY <1>1, <1>3
  <2>2. a[i] \in Msgs /\ b[j] \in Msgs /\ a[i] \in ToSet(a) /\ b[j] \in ToSet(b)
    BY <2>1 DEF ToSet
  <2>3. CASE Addr[a[i]] < Addr[b[j]]
    <3>1. WalkOn(a, b, w) = Walk(i + 1, j, out)
      BY <1>3, <2>3 DEF WalkOn
    <3>. QED BY <1>1, <2>1, <3>1, WalkIs
  <2>4. CASE ~(Addr[a[i]] < Addr[b[j]]) /\ Addr[b[j]] < Addr[a[i]]
    <3>1. WalkOn(a, b, w) = Walk(i, j + 1, out)
      BY <1>3, <2>4 DEF WalkOn
    <3>. QED BY <1>1, <2>1, <3>1, WalkIs
  <2>5. CASE ~(Addr[a[i]] < Addr[b[j]]) /\ ~(Addr[b[j]] < Addr[a[i]])
    <3>1. WalkOn(a, b, w) = Walk(i + 1, j + 1, Append(out, a[i]))
      BY <1>3, <2>5 DEF WalkOn
    <3>2. a[i] = b[j]
      <4>1. Addr \in [Msgs -> Nat] /\ IsInjective(Addr)
        BY ViewerAssumption
      <4>2. Addr[a[i]] \in Nat /\ Addr[b[j]] \in Nat
        BY <2>2, <4>1
      <4>3. Addr[a[i]] = Addr[b[j]]
        BY <2>5, <4>2
      <4>. QED BY <2>2, <4>1, <4>3 DEF IsInjective
    <3>. DEFINE o == Append(out, a[i])
    <3>3. o \in Seq(Msgs) /\ ToSet(o) = ToSet(out) \cup {a[i]}
      BY <1>1, <2>2, ToSetAppend
    <3>. HIDE DEF o
    <3>4. ToSet(o) \subseteq ToSet(a) \cap ToSet(b)
      BY <1>1, <2>2, <3>2, <3>3
    <3>5. Walk(i + 1, j + 1, o) \in Walks(a, b)
      BY <2>1, <3>3, <3>4, WalkIs
    <3>. QED BY <3>1, <3>5 DEF o
  <2>. QED BY <2>3, <2>4, <2>5
<1>. QED BY <1>2, <1>3

LEMMA IntersectFacts ==
  ASSUME NEW a \in Seq(Msgs), NEW b \in Seq(Msgs)
  PROVE  /\ ListIntersect(a, b) \in Seq(Msgs)
         /\ ToSet(ListIntersect(a, b)) \subseteq ToSet(a) \cap ToSet(b)
<1>. DEFINE l == Len(a) + Len(b)
            W == Walks(a, b)
            z == Walk(1, 1, <<>>)
            Q(f) == f = [n \in 0 .. l |-> IF n = 0 THEN Walk(1, 1, <<>>) ELSE WalkOn(a, b, f[n - 1])]
            c == CHOOSE f : Q(f)
            V == [n \in 0 .. l |-> W]
            F == [n \in 1 .. l |-> [w \in W |-> WalkOn(a, b, w)]]
<1>0. l \in Nat /\ 0 \in 0 .. l /\ \A n \in 1 .. l : n \in 0 .. l /\ n - 1 \in 0 .. l /\ n # 0
  OBVIOUS
<1>1. z \in W
  <2>. DEFINE e == <<>>
  <2>1. e \in Seq(Msgs) /\ ToSet(e) = {}
    BY DEF ToSet
  <2>. HIDE DEF e
  <2>2. Walk(1, 1, e) \in Walks(a, b)
    BY <2>1, WalkIs
  <2>. QED BY <2>2 DEF e
<1>2. /\ \A n \in 0 .. l : V[n] = W
      /\ \A n \in 1 .. l : \A w \in W : F[n][w] = WalkOn(a, b, w)
  OBVIOUS
<1>3. \A w \in W : WalkOn(a, b, w) \in W
  BY WalkOnFacts
<1>. HIDE DEF V, F, W, z, l
<1>4. Within(z, F, l, V)
  BY <1>0, <1>1, <1>2, <1>3 DEF Within
<1>5. PICK f : RecursionWithin(z, F, l, V, f)
  BY <1>0, <1>4, RecursionChosen
<1>6. Q(f)
  <2>1. ASSUME NEW n \in 1 .. l PROVE f[n] = WalkOn(a, b, f[n - 1])
    <3>1. f[n - 1] \in W /\ f[n] = F[n][f[n - 1]]
      BY <1>0, <1>2, <1>5 DEF RecursionWithin
    <3>. QED BY <1>2, <3>1
  <2>2. \A n \in 0 .. l : n # 0 => n \in 1 .. l
    BY <1>0
  <2>3. f[0] = Walk(1, 1, <<>>) /\ f = [n \in 0 .. l |-> f[n]]
    BY <1>5 DEF RecursionWithin, z
  <2>. QED BY <2>1, <2>2, <2>3
<1>7. Q(c) => c[0] = z /\ \A n \in 1 .. l : c[n] = WalkOn(a, b, c[n - 1])
  <2>. DEFINE h == [n \in 0 .. l |-> IF n = 0 THEN Walk(1, 1, <<>>) ELSE WalkOn(a, b, c[n - 1])]
  <2>1. h[0] = z
    BY <1>0 DEF z
  <2>2. \A n \in 1 .. l : h[n] = WalkOn(a, b, c[n - 1])
    BY <1>0
  <2>3. Q(c) => c = h
    OBVIOUS
  <2>. HIDE DEF h, Q, c
  <2>. QED BY <2>1, <2>2, <2>3
<1>8. ListIntersect(a, b) = c[l].out
  BY DEF ListIntersect, l
<1>. HIDE DEF Q
<1>9. c[0] = z /\ \A n \in 1 .. l : c[n] = WalkOn(a, b, c[n - 1])
  BY <1>6, <1>7
<1>. HIDE DEF c
<1>10. \A n \in 0 .. l : c[n] \in V[n]
  <2>1. c[0] \in V[0]
    BY <1>0, <1>1, <1>2, <1>9
  <2>2. ASSUME NEW n \in 1 .. l, c[n - 1] \in V[n - 1] PROVE c[n] \in V[n]
    BY <1>0, <1>2, <1>3, <1>9, <2>2
  <2>. QED BY <1>0, <2>1, <2>2, StepsInvariant
<1>11. c[l] \in Walks(a, b)
  BY <1>0, <1>2, <1>10 DEF W
<1>. QED BY <1>8, <1>11 DEF Walks

\* The messages of a list of the index are in the pool.
LEMMA NarrowFacts ==
  ASSUME CountInv, Indexed, NEW r \in Seq(Msgs), ToSet(r) \subseteq ToSet(pool),
         NEW d \in Dims, NEW items
  PROVE  /\ Narrow(r, d, items) \in Seq(Msgs)
         /\ ToSet(Narrow(r, d, items)) \subseteq ToSet(pool)
<1>. DEFINE s == Selected(d, items)
<1>1. s \in Seq(Msgs) /\ ToSet(s) \subseteq ToSet(pool)
  BY SelectedFacts
<1>. HIDE DEF s
<1>2. /\ ListIntersect(r, s) \in Seq(Msgs)
      /\ ToSet(ListIntersect(r, s)) \subseteq ToSet(r) \cap ToSet(s)
  BY <1>1, IntersectFacts
<1>3. Narrow(r, d, items) \in {r, s, ListIntersect(r, s)}
  BY DEF Narrow, s
<1>. QED BY <1>1, <1>2, <1>3

LEMMA FilteredFacts ==
  ASSUME CountInv, Indexed, NEW sel
  PROVE  Filtered(sel) \in Seq(Msgs) /\ ToSet(Filtered(sel)) \subseteq ToSet(pool)
<1>. DEFINE a == Selected("app", sel["app"])
            b == Narrow(a, "host", sel["host"])
            c == Narrow(b, "cat", sel["cat"])
<1>0. "app" \in Dims /\ "host" \in Dims /\ "cat" \in Dims
  BY DEF Dims
<1>1. a \in Seq(Msgs) /\ ToSet(a) \subseteq ToSet(pool)
  BY <1>0, SelectedFacts
<1>. HIDE DEF a
<1>2. b \in Seq(Msgs) /\ ToSet(b) \subseteq ToSet(pool)
  BY <1>0, <1>1, NarrowFacts
<1>. HIDE DEF b
<1>3. c \in Seq(Msgs) /\ ToSet(c) \subseteq ToSet(pool)
  BY <1>0, <1>2, NarrowFacts
<1>. QED BY <1>3 DEF Filtered, a, b

-----------------------------------------------------------------------------
(* A tab.                                                                  *)

LEMMA VisibleType ==
  ASSUME NEW s \in Seq(Msgs), NEW l
  PROVE  Visible(s, l) \in Seq(Msgs)
BY KeepType DEF Visible

LEMMA TabIs ==
  ASSUME NEW filter \in Filters, NEW msgs \in Seq(Msgs), NEW thresh \in 0 .. 3,
         NEW shown \in Seq(Msgs), NEW gone \in Nat
  PROVE  Tab(filter, msgs, thresh, shown, gone) \in TabState
BY DEF Tab, TabState

LEMMA TabFields ==
  ASSUME NEW filter, NEW msgs, NEW thresh, NEW shown, NEW gone
  PROVE  LET t == Tab(filter, msgs, thresh, shown, gone)
         IN  /\ t.filter = filter /\ t.msgs = msgs /\ t.thresh = thresh
             /\ t.shown = shown /\ t.gone = gone
BY DEF Tab

LEMMA TabStateFields ==
  ASSUME NEW t \in TabState
  PROVE  /\ t.filter \in Filters /\ t.msgs \in Seq(Msgs) /\ t.thresh \in 0 .. 3
         /\ t.shown \in Seq(Msgs) /\ t.gone \in Nat
         /\ t = Tab(t.filter, t.msgs, t.thresh, t.shown, t.gone)
BY DEF TabState, Tab

\* What is on display: the messages that are gone, then all that are to be seen.
Shows(t) ==
  /\ Len(t.shown) = t.gone + Len(Visible(t.msgs, t.thresh))
  /\ Rest(t.shown, t.gone) = Visible(t.msgs, t.thresh)

FewGone(t) == MaxDeleted > 0 => t.gone <= MaxDeleted

Good(t) == Shows(t) /\ FewGone(t)

LEMMA EmptyIs ==
  ASSUME NEW s, s = <<>>
  PROVE  /\ s \in Seq(Msgs) /\ Len(s) = 0 /\ ToSet(s) = {}
         /\ \A T : Keep(s, T) = s
<1>1. \A T : Keep(s, T) = s
  BY KeepEmpty
<1>. QED BY <1>1 DEF ToSet

LEMMA DisplayedIs ==
  ASSUME NEW t \in TabState
  PROVE  /\ Displayed(t) \in TabState /\ Good(Displayed(t))
         /\ Displayed(t).filter = t.filter /\ Displayed(t).msgs = t.msgs
         /\ Displayed(t).thresh = t.thresh
<1>. DEFINE v == Visible(t.msgs, t.thresh)
            u == Tab(t.filter, t.msgs, t.thresh, v, 0)
<1>1. v \in Seq(Msgs)
  BY TabStateFields, VisibleType
<1>2. /\ u.filter = t.filter /\ u.msgs = t.msgs /\ u.thresh = t.thresh
      /\ u.shown = v /\ u.gone = 0
  BY TabFields
<1>3. Displayed(t) = u
  BY DEF Displayed
<1>4. u \in TabState
  BY <1>1, TabStateFields, TabIs
<1>5. Rest(v, 0) = v /\ Len(v) \in Nat
  BY <1>1 DEF Rest
<1>. HIDE DEF u
<1>6. Shows(u)
  BY <1>2, <1>5 DEF Shows
<1>7. FewGone(u)
  BY <1>2, ViewerAssumption DEF FewGone
<1>. QED BY <1>2, <1>3, <1>4, <1>6, <1>7 DEF Good

\* The rest of the rest, and the rest of two sequences.
LEMMA RestOfRest ==
  ASSUME NEW s \in Seq(Msgs), NEW g \in Nat, NEW a \in Seq(Msgs), NEW b \in Seq(Msgs),
         Len(s) = g + Len(a) + Len(b), Rest(s, g) = a \o b
  PROVE  Rest(s, g + Len(a)) = b
<1>. DEFINE n == g + Len(a)
            r == Rest(s, n)
            q == Rest(s, g)
            l == Len(a)
            k == Len(b)
<1>1. l \in Nat /\ k \in Nat /\ n = g + l /\ Len(s) = n + k
  OBVIOUS
<1>2. g \in 0 .. Len(s) /\ n \in 0 .. Len(s)
  BY <1>1
<1>3. /\ r \in Seq(Msgs) /\ Len(r) = k /\ \A i \in 1 .. k : r[i] = s[n + i]
  <2>. HIDE DEF n, k
  <2>1. /\ r \in Seq(Msgs) /\ Len(r) = Len(s) - n
        /\ \A i \in 1 .. Len(s) - n : r[i] = s[n + i]
    BY <1>2, SplitAt
  <2>2. Len(s) - n = k
    BY <1>1, <1>2
  <2>. HIDE DEF r
  <2>. QED BY <2>1, <2>2
<1>4. \A i \in 1 .. l + k : q[i] = s[g + i]
  <2>1. \A i \in 1 .. Len(s) - g : q[i] = s[g + i]
    BY <1>2, SplitAt
  <2>2. Len(s) - g = l + k
    BY <1>1, <1>2
  <2>. HIDE DEF q, l, k
  <2>. QED BY <2>1, <2>2
<1>5. \A i \in 1 .. k : (a \o b)[l + i] = b[i]
  OBVIOUS
<1>6. ASSUME NEW i \in 1 .. k PROVE r[i] = b[i]
  <2>1. l + i \in 1 .. l + k /\ g + (l + i) = n + i
    BY <1>1
  <2>2. q[l + i] = s[n + i]
    BY <1>4, <2>1
  <2>. HIDE DEF r, n, l, k
  <2>. QED BY <1>3, <1>5, <2>2
<1>. HIDE DEF r, n, q
<1>7. r = b
  BY <1>3, <1>6, SeqEqual
<1>. QED BY <1>7 DEF r, n

LEMMA TrimTabIs ==
  ASSUME NEW t \in TabState, NEW current \in BOOLEAN
  PROVE  LET u == TrimTab(t, current)
             n == Excess(t.msgs, MaxMsgs)
         IN  /\ u \in TabState /\ u.filter = t.filter /\ u.thresh = t.thresh
             /\ u.msgs = Rest(t.msgs, n) /\ n \in 0 .. Len(t.msgs)
             /\ current /\ Shows(t) => Good(u)
<1>. DEFINE n == Excess(t.msgs, MaxMsgs)
            a == Oldest(t.msgs, n)
            b == Rest(t.msgs, n)
            va == Visible(a, t.thresh)
            vb == Visible(b, t.thresh)
            g == t.gone + Len(va)
            w == Tab(t.filter, b, t.thresh, t.shown, g)
            u == TrimTab(t, current)
<1>1. /\ t.filter \in Filters /\ t.msgs \in Seq(Msgs) /\ t.thresh \in 0 .. 3
      /\ t.shown \in Seq(Msgs) /\ t.gone \in Nat
  BY TabStateFields
<1>2. n \in 0 .. Len(t.msgs)
  BY <1>1, ViewerAssumption DEF Excess
<1>3. u = IF current /\ MaxDeleted > 0 /\ w.gone > MaxDeleted THEN Displayed(w) ELSE w
  BY DEF TrimTab
<1>. HIDE DEF n, u
<1>4. a \in Seq(Msgs) /\ b \in Seq(Msgs) /\ t.msgs = a \o b
  BY <1>1, <1>2, SplitAt, SplitIs
<1>. HIDE DEF a, b
<1>5. va \in Seq(Msgs) /\ vb \in Seq(Msgs) /\ Visible(t.msgs, t.thresh) = va \o vb
  BY <1>4, VisibleType, KeepConcat DEF Visible
<1>. HIDE DEF va, vb
<1>6. Len(va) \in Nat /\ Len(vb) \in Nat /\ Len(va \o vb) = Len(va) + Len(vb) /\ g \in Nat
  BY <1>1, <1>5
<1>7. /\ w \in TabState /\ w.filter = t.filter /\ w.msgs = b /\ w.thresh = t.thresh
      /\ w.shown = t.shown /\ w.gone = g
  <2>. HIDE DEF g
  <2>1. w \in TabState
    BY <1>1, <1>4, <1>6, TabIs
  <2>. QED BY <2>1, TabFields
<1>. HIDE DEF w
<1>8. Shows(t) => Shows(w)
  <2>. SUFFICES ASSUME Shows(t) PROVE Shows(w)
    OBVIOUS
  <2>1. Len(t.shown) = t.gone + Len(va) + Len(vb) /\ Rest(t.shown, t.gone) = va \o vb
    BY <1>1, <1>5, <1>6 DEF Shows
  <2>2. Rest(t.shown, t.gone + Len(va)) = vb
    <3>. DEFINE x == t.shown
                y == t.gone
    <3>1. /\ x \in Seq(Msgs) /\ y \in Nat /\ Len(x) = y + Len(va) + Len(vb)
          /\ Rest(x, y) = va \o vb
      BY <1>1, <2>1
    <3>. HIDE DEF x, y
    <3>2. Rest(x, y + Len(va)) = vb
      BY <1>5, <3>1, RestOfRest
    <3>. QED BY <3>2 DEF x, y
  <2>3. Visible(w.msgs, w.thresh) = vb
    BY <1>7 DEF vb
  <2>. QED BY <1>6, <1>7, <2>1, <2>2, <2>3 DEF Shows
<1>9. /\ Displayed(w) \in TabState /\ Good(Displayed(w))
      /\ Displayed(w).filter = w.filter /\ Displayed(w).msgs = w.msgs
      /\ Displayed(w).thresh = w.thresh
  BY <1>7, DisplayedIs
<1>10. CASE current /\ MaxDeleted > 0 /\ w.gone > MaxDeleted
  <2>1. u = Displayed(w)
    BY <1>3, <1>10
  <2>. QED BY <1>2, <1>7, <1>9, <2>1 DEF u, n, b
<1>11. CASE ~(current /\ MaxDeleted > 0 /\ w.gone > MaxDeleted)
  <2>1. u = w
    BY <1>3, <1>11
  <2>2. current => FewGone(w)
    BY <1>6, <1>7, <1>11, ViewerAssumption DEF FewGone
  <2>. QED BY <1>2, <1>7, <1>8, <2>1, <2>2 DEF u, n, b, Good
<1>. QED BY <1>10, <1>11

LEMMA PushToIs ==
  ASSUME NEW t \in TabState, NEW current \in BOOLEAN, NEW m \in Msgs
  PROVE  LET u == PushTo(t, current, m)
         IN  /\ u \in TabState /\ u.filter = t.filter /\ u.thresh = t.thresh
             /\ u.msgs = IF Matches(t.filter, m) THEN Append(t.msgs, m) ELSE t.msgs
             /\ current /\ Good(t) => Good(u)
<1>. DEFINE s == Append(t.msgs, m)
            v == Visible(t.msgs, t.thresh)
            h == IF current /\ Sev[m] >= t.thresh THEN Append(t.shown, m) ELSE t.shown
            w == Tab(t.filter, s, t.thresh, h, t.gone)
            u == PushTo(t, current, m)
<1>1. /\ t.filter \in Filters /\ t.msgs \in Seq(Msgs) /\ t.thresh \in 0 .. 3
      /\ t.shown \in Seq(Msgs) /\ t.gone \in Nat
  BY TabStateFields
<1>2. CASE ~Matches(t.filter, m)
  <2>1. u = t
    BY <1>2 DEF PushTo
  <2>. QED BY <1>2, <2>1
<1>3. CASE Matches(t.filter, m)
  <2>1. u = w
    BY <1>3 DEF PushTo
  <2>2. s \in Seq(Msgs) /\ h \in Seq(Msgs)
    BY <1>1
  <2>3. /\ w \in TabState /\ w.filter = t.filter /\ w.msgs = s /\ w.thresh = t.thresh
        /\ w.shown = h /\ w.gone = t.gone
    <3>. HIDE DEF s, h
    <3>1. w \in TabState
      BY <1>1, <2>2, TabIs
    <3>. QED BY <3>1, TabFields
  <2>4. Visible(s, t.thresh) = IF Sev[m] >= t.thresh THEN Append(v, m) ELSE v
    <3>. DEFINE T == {x \in Msgs : Sev[x] >= t.thresh}
                q == t.msgs
    <3>1. m \in T <=> Sev[m] >= t.thresh
      OBVIOUS
    <3>2. Visible(s, t.thresh) = Keep(Append(q, m), T) /\ v = Keep(q, T)
      BY DEF Visible
    <3>3. q \in Seq(Msgs)
      BY <1>1
    <3>. HIDE DEF T, q, s, v
    <3>. QED BY <3>1, <3>2, <3>3, KeepAppend
  <2>5. v \in Seq(Msgs) /\ Len(v) \in Nat
    BY <1>1, VisibleType
  <2>. HIDE DEF v, w
  <2>6. ASSUME current, Good(t) PROVE Good(w)
    <3>1. Len(t.shown) = t.gone + Len(v) /\ Rest(t.shown, t.gone) = v
      BY <2>6 DEF Good, Shows, v
    <3>2. t.gone \in 0 .. Len(t.shown)
      BY <1>1, <2>5, <3>1
    <3>3. Rest(Append(t.shown, m), t.gone) = Append(v, m)
      BY <1>1, <3>1, <3>2, SplitAppend
    <3>4. Len(Append(t.shown, m)) = Len(t.shown) + 1 /\ Len(Append(v, m)) = Len(v) + 1
      BY <1>1, <2>5
    <3>5. Len(h) = t.gone + Len(Visible(s, t.thresh)) /\ Rest(h, t.gone) = Visible(s, t.thresh)
      <4>1. CASE Sev[m] >= t.thresh
        <5>1. h = Append(t.shown, m)
          BY <2>6, <4>1
        <5>2. Visible(s, t.thresh) = Append(v, m)
          BY <2>4, <4>1
        <5>. HIDE DEF h, s
        <5>3. Rest(h, t.gone) = Visible(s, t.thresh)
          BY <3>3, <5>1, <5>2, Zenon
        <5>4. Len(h) = Len(t.shown) + 1 /\ Len(Visible(s, t.thresh)) = Len(v) + 1
          BY <3>4, <5>1, <5>2, Zenon
        <5>5. Len(h) = t.gone + Len(Visible(s, t.thresh))
          <6>1. Len(h) = t.gone + Len(v) + 1
            BY <3>1, <5>4, Zenon
          <6>2. t.gone + Len(v) + 1 = t.gone + (Len(v) + 1)
            <7>1. t.gone \in Nat /\ Len(v) \in Nat
              BY <1>1, <2>5
            <7>. QED BY <7>1
          <6>. QED BY <5>4, <6>1, <6>2, Zenon
        <5>. QED BY <5>3, <5>5
      <4>2. CASE ~(Sev[m] >= t.thresh)
        BY <2>4, <3>1, <4>2
      <4>. QED BY <4>1, <4>2
    <3>. HIDE DEF h, s
    <3>6. Shows(w)
      BY <2>3, <3>5 DEF Shows
    <3>. QED BY <2>3, <2>6, <3>6 DEF Good, FewGone
  <2>. QED BY <1>3, <2>1, <2>3, <2>6 DEF u, s
<1>. QED BY <1>2, <1>3

-----------------------------------------------------------------------------
(* What the slots do with the tabs.                                        *)

SameView(u, t) == u.filter = t.filter /\ u.msgs = t.msgs

LEMMA RemoveAtIs ==
  ASSUME NEW S, NEW s \in Seq(S), NEW i \in 1 .. Len(s)
  PROVE  /\ RemoveAt(s, i) \in Seq(S) /\ Len(RemoveAt(s, i)) = Len(s) - 1
         /\ \A j \in 1 .. i - 1 : RemoveAt(s, i)[j] = s[j]
         /\ \A j \in i .. Len(s) - 1 : RemoveAt(s, i)[j] = s[j + 1]
<1>. DEFINE a == SubSeq(s, 1, i - 1)
            b == SubSeq(s, i + 1, Len(s))
<1>1. a \in Seq(S) /\ Len(a) = i - 1 /\ \A j \in 1 .. i - 1 : a[j] = s[j]
  OBVIOUS
<1>2. /\ b \in Seq(S) /\ Len(b) = Len(s) - i
      /\ \A j \in 1 .. Len(s) - i : b[j] = s[i + j]
  OBVIOUS
<1>3. RemoveAt(s, i) = a \o b
  BY DEF RemoveAt
<1>. HIDE DEF a, b
<1>4. a \o b \in Seq(S) /\ Len(a \o b) = Len(s) - 1
  <2>1. a \o b \in Seq(S)
    BY <1>1, <1>2
  <2>2. a \in Seq(S) /\ b \in Seq(S)
    BY <1>1, <1>2
  <2>3. Len(a \o b) = Len(a) + Len(b)
    BY <2>2
  <2>4. (i - 1) + (Len(s) - i) = Len(s) - 1
    OBVIOUS
  <2>. QED BY <1>1, <1>2, <2>1, <2>3, <2>4
<1>5. \A j \in 1 .. i - 1 : (a \o b)[j] = s[j]
  BY <1>1, <1>2
<1>6. ASSUME NEW j \in i .. Len(s) - 1 PROVE (a \o b)[j] = s[j + 1]
  <2>1. j - (i - 1) \in 1 .. Len(s) - i /\ i + (j - (i - 1)) = j + 1
    OBVIOUS
  <2>2. (a \o b)[j] = b[j - (i - 1)]
    BY <1>1, <1>2
  <2>. QED BY <1>2, <2>1, <2>2
<1>. QED BY <1>3, <1>4, <1>5, <1>6

\* The tab that is made current is written anew, and the slider follows.
LEMMA CurrentChangedIs ==
  ASSUME NEW ts \in Seq(TabState), NEW i \in 1 .. Len(ts), CurrentChanged(ts, i)
  PROVE  /\ tabs' \in Seq(TabState) /\ Len(tabs') = Len(ts)
         /\ Good(tabs'[i]) /\ slider' = tabs'[i].thresh /\ slider' \in 0 .. 3
         /\ \A j \in 1 .. Len(ts) : SameView(tabs'[j], ts[j])
<1>. DEFINE u == Displayed(ts[i])
<1>1. ts[i] \in TabState
  OBVIOUS
<1>2. /\ u \in TabState /\ Good(u) /\ SameView(u, ts[i]) /\ u.thresh = ts[i].thresh
  BY <1>1, DisplayedIs DEF SameView
<1>3. tabs' = [ts EXCEPT ![i] = u] /\ slider' = ts[i].thresh
  BY DEF CurrentChanged
<1>. HIDE DEF u
<1>4. /\ tabs' \in Seq(TabState) /\ Len(tabs') = Len(ts) /\ tabs'[i] = u
      /\ \A j \in 1 .. Len(ts) : j # i => tabs'[j] = ts[j]
  BY <1>2, <1>3
<1>5. \A j \in 1 .. Len(ts) : SameView(tabs'[j], ts[j])
  BY <1>2, <1>4 DEF SameView
<1>6. slider' \in 0 .. 3
  BY <1>1, <1>3, TabStateFields
<1>. QED BY <1>2, <1>3, <1>4, <1>5, <1>6

LEMMA NewMsgTabs ==
  ASSUME TabTypes, NEW m \in Msgs, NewMsg(m)
  PROVE  /\ TabTypes' /\ Len(tabs') = Len(tabs) /\ cur' = cur /\ slider' = slider
         /\ \A j \in DOMAIN tabs :
              LET r == Rest(tabs[j].msgs, Excess(tabs[j].msgs, MaxMsgs))
              IN  /\ tabs'[j].filter = tabs[j].filter /\ tabs'[j].thresh = tabs[j].thresh
                  /\ tabs'[j].msgs = IF Matches(tabs[j].filter, m) THEN Append(r, m) ELSE r
         /\ Shows(tabs[cur]) => Good(tabs'[cur])
<1>. DEFINE u(j) == TrimTab(tabs[j], j = cur)
            w(j) == PushTo(u(j), j = cur, m)
<1>1. tabs \in Seq(TabState) /\ cur \in DOMAIN tabs /\ \A j \in DOMAIN tabs : tabs[j] \in TabState
  BY DEF TabTypes
<1>2. tabs' = [j \in DOMAIN tabs |-> w(j)] /\ cur' = cur /\ slider' = slider
  BY DEF NewMsg, Receive
<1>3. ASSUME NEW j \in DOMAIN tabs
      PROVE  /\ u(j) \in TabState /\ u(j).filter = tabs[j].filter
             /\ u(j).thresh = tabs[j].thresh
             /\ u(j).msgs = Rest(tabs[j].msgs, Excess(tabs[j].msgs, MaxMsgs))
             /\ j = cur /\ Shows(tabs[j]) => Good(u(j))
  BY <1>1, TrimTabIs
<1>. HIDE DEF u
<1>4. ASSUME NEW j \in DOMAIN tabs
      PROVE  /\ w(j) \in TabState /\ w(j).filter = u(j).filter /\ w(j).thresh = u(j).thresh
             /\ w(j).msgs = IF Matches(u(j).filter, m) THEN Append(u(j).msgs, m) ELSE u(j).msgs
             /\ j = cur /\ Good(u(j)) => Good(w(j))
  <2>1. u(j) \in TabState /\ (j = cur) \in BOOLEAN
    BY <1>3
  <2>. QED BY <2>1, PushToIs
<1>. HIDE DEF w
<1>5. DOMAIN tabs' = DOMAIN tabs /\ \A j \in DOMAIN tabs : tabs'[j] = w(j)
  BY <1>2
<1>6. DOMAIN tabs = 1 .. Len(tabs) /\ Len(tabs) \in Nat
  BY <1>1
<1>7. tabs' \in Seq(TabState) /\ Len(tabs') = Len(tabs)
  <2>1. tabs' \in [1 .. Len(tabs) -> TabState]
    BY <1>2, <1>4, <1>6
  <2>. QED BY <1>6, <2>1
<1>8. TabTypes'
  BY <1>2, <1>7 DEF TabTypes
<1>9. Shows(tabs[cur]) => Good(tabs'[cur])
  BY <1>1, <1>3, <1>4, <1>5
<1>. QED BY <1>2, <1>3, <1>4, <1>5, <1>7, <1>8, <1>9

\* A slot of the filter button shows a tab there is, or a new one.
LEMMA SetFilterTabs ==
  ASSUME CountInv, Indexed, TabTypes, NEW sel \in Selections, SetFilter(sel)
  PROVE  LET new == NewTab(sel, Filtered(sel))
         IN  \/ UNCHANGED <<tabs, cur, slider>>
             \/ cur' \in 1 .. Len(tabs) /\ CurrentChanged(tabs, cur')
             \/ /\ cur' = Len(tabs) + 1 /\ CurrentChanged(Append(tabs, new), cur')
                /\ Append(tabs, new) \in Seq(TabState)
<1>. DEFINE same == {i \in DOMAIN tabs : Expression(tabs[i].filter) = Expression(sel)}
            new == NewTab(sel, Filtered(sel))
<1>1. tabs \in Seq(TabState) /\ DOMAIN tabs = 1 .. Len(tabs)
  BY DEF TabTypes
<1>2. \/ /\ same # {}
         /\ cur' = CHOOSE i \in same : \A j \in same : i <= j
         /\ IF cur' = cur THEN UNCHANGED <<tabs, slider>> ELSE CurrentChanged(tabs, cur')
      \/ /\ cur' = Len(tabs) + 1
         /\ CurrentChanged(Append(tabs, new), cur')
  BY DEF SetFilter
<1>3. same \subseteq 1 .. Len(tabs) /\ same \subseteq Nat
  BY <1>1
<1>4. same # {} => \E i \in same : \A j \in same : i <= j
  <2>. HIDE DEF same
  <2>. QED BY <1>3, LeastNatural
<1>5. new \in TabState
  <2>. DEFINE z == <<>>
              f == Filtered(sel)
  <2>1. f \in Seq(Msgs) /\ z \in Seq(Msgs) /\ sel \in Filters /\ SINFO \in 0 .. 3 /\ 0 \in Nat
    BY FilteredFacts DEF Filters, SINFO
  <2>. HIDE DEF z, f
  <2>2. Tab(sel, f, SINFO, z, 0) \in TabState
    BY <2>1, TabIs
  <2>. QED BY <2>2 DEF NewTab, z, f
<1>. HIDE DEF same, new
<1>6. Append(tabs, new) \in Seq(TabState)
  BY <1>1, <1>5
<1>7. CASE cur' = Len(tabs) + 1 /\ CurrentChanged(Append(tabs, new), cur')
  BY <1>6, <1>7 DEF new
<1>8. CASE /\ same # {}
           /\ cur' = CHOOSE i \in same : \A j \in same : i <= j
           /\ IF cur' = cur THEN UNCHANGED <<tabs, slider>> ELSE CurrentChanged(tabs, cur')
  <2>1. cur' \in same
    BY <1>4, <1>8
  <2>2. cur' \in 1 .. Len(tabs)
    BY <1>3, <2>1
  <2>. QED BY <1>8, <2>2
<1>. QED BY <1>2, <1>7, <1>8

LEMMA SetSevTabs ==
  ASSUME TabTypes, NEW s \in Levels, SetSev(s)
  PROVE  /\ TabTypes' /\ Len(tabs') = Len(tabs) /\ cur' = cur
         /\ slider' = tabs'[cur].thresh
         /\ Good(tabs'[cur]) \/ (slider = s /\ (slider = tabs[cur].thresh => tabs' = tabs))
         /\ \A j \in DOMAIN tabs : SameView(tabs'[j], tabs[j])
<1>. DEFINE t == tabs[cur]
            v == [t EXCEPT !.thresh = s]
            ts == [tabs EXCEPT ![cur] = v]
<1>1. tabs \in Seq(TabState) /\ cur \in 1 .. Len(tabs) /\ t \in TabState /\ s \in 0 .. 3
  BY ViewerAssumption DEF TabTypes
<1>2. /\ v \in TabState /\ SameView(v, t) /\ v.thresh = s /\ (t.thresh = s => v = t)
  BY <1>1 DEF TabState, SameView
<1>3. /\ slider' = s /\ cur' = cur
      /\ tabs' = IF slider = s THEN ts ELSE [ts EXCEPT ![cur] = Displayed(ts[cur])]
  BY DEF SetSev
<1>. HIDE DEF v, t
<1>4. /\ ts \in Seq(TabState) /\ Len(ts) = Len(tabs) /\ ts[cur] = v
      /\ \A j \in 1 .. Len(tabs) : j # cur => ts[j] = tabs[j]
  BY <1>1, <1>2
<1>5. t.thresh = s => ts = tabs
  BY <1>1, <1>2 DEF t
<1>. HIDE DEF ts
<1>6. /\ Displayed(v) \in TabState /\ Good(Displayed(v)) /\ SameView(Displayed(v), v)
      /\ Displayed(v).thresh = s
  BY <1>2, DisplayedIs DEF SameView
<1>7. DOMAIN tabs = 1 .. Len(tabs) /\ DOMAIN ts = 1 .. Len(tabs)
  BY <1>1, <1>4
<1>8. CASE slider = s
  <2>1. tabs' = ts
    BY <1>3, <1>8
  <2>2. \A j \in DOMAIN tabs : SameView(tabs'[j], tabs[j])
    BY <1>2, <1>4, <1>7, <2>1 DEF SameView, t
  <2>3. TabTypes'
    BY <1>1, <1>3, <1>4, <2>1 DEF TabTypes
  <2>. QED BY <1>2, <1>3, <1>4, <1>5, <1>8, <2>1, <2>2, <2>3 DEF t
<1>9. CASE slider # s
  <2>1. tabs' = [ts EXCEPT ![cur] = Displayed(v)]
    BY <1>3, <1>4, <1>9
  <2>2. /\ tabs' \in Seq(TabState) /\ Len(tabs') = Len(tabs) /\ tabs'[cur] = Displayed(v)
        /\ \A j \in 1 .. Len(tabs) : j # cur => tabs'[j] = tabs[j]
    BY <1>1, <1>4, <1>6, <1>7, <2>1
  <2>3. \A j \in DOMAIN tabs : SameView(tabs'[j], tabs[j])
    BY <1>2, <1>6, <1>7, <2>2 DEF SameView, t
  <2>4. TabTypes'
    BY <1>1, <1>3, <2>2 DEF TabTypes
  <2>. QED BY <1>3, <1>6, <2>2, <2>3, <2>4
<1>. QED BY <1>8, <1>9

\* Closing a tab moves the tabs to its right, and the next tab is displayed before
\* they have moved.
LEMMA CloseTabTabs ==
  ASSUME TabTypes, NEW i \in DOMAIN tabs, CloseTab(i)
  PROVE  /\ TabTypes' /\ Len(tabs') = Len(tabs) - 1
         /\ i > cur => cur' = cur /\ slider' = slider /\ tabs'[cur] = tabs[cur]
         /\ i = Len(tabs) /\ ~(i > cur) => Good(tabs'[cur']) /\ slider' = tabs'[cur'].thresh
         /\ \A j \in DOMAIN tabs' : \E k \in DOMAIN tabs : SameView(tabs'[j], tabs[k])
<1>1. /\ tabs \in Seq(TabState) /\ cur \in 1 .. Len(tabs) /\ i \in 2 .. Len(tabs)
      /\ Len(tabs) \in Nat /\ slider \in 0 .. 3
  BY DEF TabTypes, CloseTab
<1>2. cur' = IF cur > i \/ (i = cur /\ cur = Len(tabs)) THEN cur - 1 ELSE cur
  BY DEF CloseTab
<1>3. cur' \in 1 .. Len(tabs) - 1 /\ (i > cur => cur' = cur)
  BY <1>1, <1>2
<1>4. PICK ts : /\ ts \in Seq(TabState) /\ Len(ts) = Len(tabs) /\ tabs' = RemoveAt(ts, i)
                /\ \A j \in 1 .. Len(tabs) : SameView(ts[j], tabs[j])
                /\ slider' \in 0 .. 3
                /\ i > cur => slider' = slider /\ ts = tabs
                /\ ~(i > cur) => Good(ts[cur']) /\ slider' = ts[cur'].thresh
  <2>1. CASE i > cur
    <3>1. tabs' = RemoveAt(tabs, i) /\ slider' = slider
      BY <2>1 DEF CloseTab
    <3>. QED BY <1>1, <2>1, <3>1 DEF SameView
  <2>2. CASE ~(i > cur)
    <3>. DEFINE t == tabs[cur']
                u == Displayed(t)
                ts == [tabs EXCEPT ![cur'] = u]
    <3>1. cur' \in 1 .. Len(tabs) /\ t \in TabState
      BY <1>1, <1>3
    <3>2. tabs' = RemoveAt(ts, i) /\ slider' = t.thresh
      BY <2>2 DEF CloseTab
    <3>3. u \in TabState /\ Good(u) /\ SameView(u, t) /\ u.thresh = t.thresh
      BY <3>1, DisplayedIs DEF SameView
    <3>4. t.thresh \in 0 .. 3
      BY <3>1, TabStateFields
    <3>. HIDE DEF u
    <3>5. /\ ts \in Seq(TabState) /\ Len(ts) = Len(tabs) /\ ts[cur'] = u
          /\ \A j \in 1 .. Len(tabs) : j # cur' => ts[j] = tabs[j]
      BY <1>1, <3>1, <3>3
    <3>6. \A j \in 1 .. Len(tabs) : SameView(ts[j], tabs[j])
      BY <3>3, <3>5 DEF SameView
    <3>. QED BY <2>2, <3>2, <3>3, <3>4, <3>5, <3>6
  <2>. QED BY <2>1, <2>2
<1>5. i \in 1 .. Len(ts)
  BY <1>1, <1>4
<1>6. /\ tabs' \in Seq(TabState) /\ Len(tabs') = Len(tabs) - 1
      /\ \A j \in 1 .. i - 1 : tabs'[j] = ts[j]
      /\ \A j \in i .. Len(tabs) - 1 : tabs'[j] = ts[j + 1]
  BY <1>4, <1>5, RemoveAtIs
<1>7. TabTypes'
  BY <1>3, <1>4, <1>6 DEF TabTypes
<1>8. ASSUME i > cur PROVE cur' = cur /\ slider' = slider /\ tabs'[cur] = tabs[cur]
  <2>1. cur \in 1 .. i - 1
    BY <1>1, <1>8
  <2>. QED BY <1>3, <1>4, <1>6, <1>8, <2>1
<1>9. ASSUME i = Len(tabs), ~(i > cur)
      PROVE  Good(tabs'[cur']) /\ slider' = tabs'[cur'].thresh
  <2>1. cur' \in 1 .. i - 1
    BY <1>3, <1>9
  <2>. QED BY <1>4, <1>6, <1>9, <2>1
<1>10. ASSUME NEW j \in DOMAIN tabs' PROVE \E k \in DOMAIN tabs : SameView(tabs'[j], tabs[k])
  <2>1. j \in 1 .. Len(tabs) - 1 /\ DOMAIN tabs = 1 .. Len(tabs)
    BY <1>1, <1>6
  <2>2. CASE j < i
    <3>1. j \in 1 .. i - 1 /\ j \in 1 .. Len(tabs)
      BY <1>1, <2>1, <2>2
    <3>. QED BY <1>4, <1>6, <2>1, <3>1
  <2>3. CASE ~(j < i)
    <3>1. j \in i .. Len(tabs) - 1 /\ j + 1 \in 1 .. Len(tabs)
      BY <1>1, <2>1, <2>3
    <3>. QED BY <1>4, <1>6, <2>1, <3>1
  <2>. QED BY <1>1, <2>1, <2>2, <2>3
<1>. QED BY <1>6, <1>7, <1>8, <1>9, <1>10

LEMMA ClearTabs ==
  ASSUME TabTypes, Clear
  PROVE  /\ TabTypes' /\ Len(tabs') = Len(tabs) /\ cur' = cur /\ slider' = slider
         /\ \A j \in DOMAIN tabs : /\ Good(tabs'[j]) /\ tabs'[j].thresh = tabs[j].thresh
                                   /\ tabs'[j].filter = tabs[j].filter
                                   /\ tabs'[j].msgs = <<>>
<1>. DEFINE z == <<>>
            u(j) == Tab(tabs[j].filter, z, tabs[j].thresh, z, 0)
<1>1. tabs \in Seq(TabState) /\ DOMAIN tabs = 1 .. Len(tabs) /\ Len(tabs) \in Nat
  BY DEF TabTypes
<1>2. tabs' = [j \in DOMAIN tabs |-> u(j)] /\ cur' = cur /\ slider' = slider
  BY DEF Clear
<1>3. z \in Seq(Msgs) /\ Len(z) = 0 /\ \A T : Keep(z, T) = z
  BY EmptyIs
<1>4. Rest(z, 0) = z
  BY DEF Rest
<1>. HIDE DEF z
<1>5. ASSUME NEW j \in DOMAIN tabs
      PROVE  /\ u(j) \in TabState /\ Good(u(j)) /\ u(j).thresh = tabs[j].thresh
             /\ u(j).filter = tabs[j].filter /\ u(j).msgs = z
  <2>1. tabs[j] \in TabState
    BY <1>1
  <2>2. u(j) \in TabState
    <3>. DEFINE f == tabs[j].filter
                l == tabs[j].thresh
    <3>1. f \in Filters /\ l \in 0 .. 3 /\ 0 \in Nat
      BY <2>1, TabStateFields
    <3>. HIDE DEF f, l
    <3>2. Tab(f, z, l, z, 0) \in TabState
      BY <1>3, <3>1, TabIs
    <3>. QED BY <3>2 DEF f, l
  <2>3. /\ u(j).filter = tabs[j].filter /\ u(j).msgs = z /\ u(j).thresh = tabs[j].thresh
        /\ u(j).shown = z /\ u(j).gone = 0
    BY TabFields
  <2>. HIDE DEF u
  <2>4. Shows(u(j))
    BY <1>3, <1>4, <2>3 DEF Shows, Visible
  <2>5. FewGone(u(j))
    BY <2>3, ViewerAssumption DEF FewGone
  <2>. QED BY <2>2, <2>3, <2>4, <2>5 DEF Good
<1>. HIDE DEF u
<1>6. tabs' \in [1 .. Len(tabs) -> TabState]
  BY <1>1, <1>2, <1>5
<1>7. tabs' \in Seq(TabState) /\ Len(tabs') = Len(tabs)
  BY <1>1, <1>6
<1>8. TabTypes'
  BY <1>2, <1>7 DEF TabTypes
<1>. QED BY <1>2, <1>5, <1>7, <1>8 DEF z

LEMMA ShortModeTabs ==
  ASSUME TabTypes, ShortMode
  PROVE  /\ TabTypes' /\ Len(tabs') = Len(tabs) /\ cur' = cur /\ slider' = slider
         /\ \A j \in DOMAIN tabs : /\ Good(tabs'[j]) /\ tabs'[j].thresh = tabs[j].thresh
                                   /\ SameView(tabs'[j], tabs[j])
<1>1. tabs \in Seq(TabState) /\ DOMAIN tabs = 1 .. Len(tabs) /\ Len(tabs) \in Nat
  BY DEF TabTypes
<1>2. tabs' = [j \in DOMAIN tabs |-> Displayed(tabs[j])] /\ cur' = cur /\ slider' = slider
  BY DEF ShortMode
<1>3. ASSUME NEW j \in DOMAIN tabs
      PROVE  /\ tabs'[j] \in TabState /\ Good(tabs'[j]) /\ tabs'[j].thresh = tabs[j].thresh
             /\ SameView(tabs'[j], tabs[j])
  <2>1. tabs[j] \in TabState
    BY <1>1
  <2>. QED BY <1>2, <2>1, DisplayedIs DEF SameView
<1>4. tabs' \in [1 .. Len(tabs) -> TabState]
  BY <1>1, <1>2, <1>3
<1>5. tabs' \in Seq(TabState) /\ Len(tabs') = Len(tabs)
  BY <1>1, <1>4
<1>6. TabTypes'
  BY <1>2, <1>5 DEF TabTypes
<1>. QED BY <1>2, <1>3, <1>5, <1>6

-----------------------------------------------------------------------------
(* The state of the dialog.                                                *)

ViewInv == CountInv /\ WindowsBegan /\ Indexed /\ TabTypes

LEMMA InitView == Init => ViewInv
<1>. SUFFICES ASSUME Init PROVE ViewInv
  OBVIOUS
<1>. DEFINE z == <<>>
            t == Tab(NoFilter, z, SINFO, z, 0)
<1>1. CountInv /\ WindowsBegan
  BY InitCountInv, InitWindows
<1>2. Indexed
  <2>1. ToSet(z) = {} /\ IsInjective(z) /\ DOMAIN z = {}
    BY DEF ToSet, IsInjective
  <2>2. \A d \in Dims : KeysOf(d, z) = {}
    BY <2>1 DEF KeysOf
  <2>3. \A d \in Dims : ByKey(d, z) = z
    BY <2>2 DEF ByKey
  <2>. HIDE DEF z
  <2>4. pool = z /\ index = [d \in Dims |-> z] /\ lists = [d \in Dims |-> {}] /\ arrived = {}
    BY DEF Init, z
  <2>. QED BY <2>1, <2>2, <2>3, <2>4 DEF Indexed
<1>3. TabTypes
  <2>1. z \in Seq(Msgs) /\ NoFilter \in Filters /\ SINFO \in 0 .. 3 /\ 0 \in Nat
    BY DEF Filters, SINFO
  <2>. HIDE DEF z
  <2>2. t \in TabState
    BY <2>1, TabIs
  <2>3. tabs = <<t>> /\ cur = 1 /\ slider = SINFO
    BY DEF Init, NewTab, z
  <2>. HIDE DEF t
  <2>4. <<t>> \in Seq(TabState) /\ Len(<<t>>) = 1
    BY <2>2
  <2>. QED BY <2>1, <2>3, <2>4 DEF TabTypes
<1>. QED BY <1>1, <1>2, <1>3 DEF ViewInv

\* One step of the dialog, as the lemmas above see it.
LEMMA ViewInductive == ViewInv /\ [Next]_vars => ViewInv'
<1>. SUFFICES ASSUME ViewInv, [Next]_vars PROVE Indexed' /\ TabTypes'
  BY CountInductive, WindowsInductive DEF ViewInv
<1>. USE DEF ViewInv
<1>0. arrived' \subseteq Msgs
  BY WindowsInductive DEF WindowsBegan
<1>1. ASSUME NEW m \in Msgs, Drop(m) PROVE Indexed' /\ TabTypes'
  <2>1. UNCHANGED <<pool, index, lists, tabs, cur, slider>> /\ arrived \subseteq arrived'
    BY <1>1 DEF Drop, Receive
  <2>. QED BY <1>0, <2>1 DEF Indexed, TabTypes
<1>2. ASSUME NEW m \in Msgs, NewMsg(m) PROVE Indexed' /\ TabTypes'
  BY <1>2, NewMsgIndexed, NewMsgTabs
<1>3. ASSUME UNCHANGED <<pool, index, lists, arrived>> PROVE Indexed'
  BY <1>3 DEF Indexed
<1>4. ASSUME UNCHANGED <<tabs, cur, slider>> PROVE TabTypes'
  BY <1>4 DEF TabTypes
<1>5. ASSUME Toggle \/ UNCHANGED vars PROVE Indexed' /\ TabTypes'
  BY <1>3, <1>4, <1>5 DEF Toggle, vars
<1>6. ASSUME NEW sel \in Selections, SetFilter(sel) PROVE Indexed' /\ TabTypes'
  <2>1. Indexed'
    BY <1>3, <1>6 DEF SetFilter
  <2>2. CASE UNCHANGED <<tabs, cur, slider>>
    BY <1>4, <2>1, <2>2
  <2>3. ASSUME NEW ts \in Seq(TabState), cur' \in 1 .. Len(ts), CurrentChanged(ts, cur')
        PROVE  TabTypes'
    BY <2>3, CurrentChangedIs DEF TabTypes
  <2>4. CASE cur' \in 1 .. Len(tabs) /\ CurrentChanged(tabs, cur')
    BY <2>1, <2>3, <2>4 DEF TabTypes
  <2>. DEFINE ts == Append(tabs, NewTab(sel, Filtered(sel)))
  <2>5. CASE cur' = Len(tabs) + 1 /\ CurrentChanged(ts, cur') /\ ts \in Seq(TabState)
    <3>1. Len(ts) = Len(tabs) + 1 /\ Len(tabs) \in Nat
      BY DEF TabTypes
    <3>. HIDE DEF ts
    <3>2. cur' \in 1 .. Len(ts)
      BY <2>5, <3>1
    <3>. QED BY <2>1, <2>3, <2>5, <3>2
  <2>. HIDE DEF ts
  <2>6. \/ UNCHANGED <<tabs, cur, slider>>
        \/ cur' \in 1 .. Len(tabs) /\ CurrentChanged(tabs, cur')
        \/ cur' = Len(tabs) + 1 /\ CurrentChanged(ts, cur') /\ ts \in Seq(TabState)
    BY <1>6, SetFilterTabs DEF ts
  <2>. QED BY <2>2, <2>4, <2>5, <2>6
<1>7. ASSUME NEW s \in Levels, SetSev(s) PROVE Indexed' /\ TabTypes'
  BY <1>3, <1>7, SetSevTabs DEF SetSev
<1>8. ASSUME NEW i \in DOMAIN tabs, SwitchTab(i) PROVE Indexed' /\ TabTypes'
  <2>1. tabs \in Seq(TabState) /\ i \in 1 .. Len(tabs) /\ cur' = i /\ CurrentChanged(tabs, i)
    BY <1>8 DEF TabTypes, SwitchTab
  <2>2. TabTypes'
    BY <2>1, CurrentChangedIs DEF TabTypes
  <2>. QED BY <1>3, <1>8, <2>2 DEF SwitchTab
<1>9. ASSUME NEW i \in DOMAIN tabs, CloseTab(i) PROVE Indexed' /\ TabTypes'
  BY <1>3, <1>9, CloseTabTabs DEF CloseTab
<1>10. ASSUME Clear PROVE Indexed' /\ TabTypes'
  BY <1>0, <1>10, EmptyIndexed, ClearTabs DEF Clear
<1>11. ASSUME ShortMode PROVE Indexed' /\ TabTypes'
  BY <1>3, <1>11, ShortModeTabs DEF ShortMode
<1>. QED BY <1>1, <1>2, <1>5, <1>6, <1>7, <1>8, <1>9, <1>10, <1>11 DEF Next

\* The pool, the index, the lists, the counters and every tab are what they should be,
\* and tell the same story, for any messages, filters, limits and order of slots
\* (mvdlg.cc:252-474).
THEOREM PoolIsTrue == Spec => []PoolInv
<1>1. ViewInv => PoolInv
  <2>. SUFFICES ASSUME ViewInv PROVE PoolInv
    OBVIOUS
  <2>. USE DEF ViewInv
  <2>1. ThrottleTypeOK /\ arrived \subseteq Msgs
    BY DEF WindowsBegan
  <2>2. count \in [{"msgs", "sup", "thr", "deleted"} -> Nat] /\ pool \in Seq(Msgs)
        /\ CountersAddUp
    BY DEF CountInv, Counters
  <2>3. ASSUME NEW d \in Dims
        PROVE  /\ \A k \in DOMAIN index[d] : index[d][k] \in Seq(Msgs)
               /\ lists[d] \subseteq {Attr[d][m] : m \in Msgs}
    <3>1. lists[d] = KeysOf(d, pool) /\ ToSet(pool) \subseteq Msgs
      BY <2>2 DEF Indexed, ToSet
    <3>. QED BY <3>1, IndexFacts DEF KeysOf
  <2>4. /\ \A i \in DOMAIN tabs : /\ tabs[i].msgs \in Seq(Msgs) /\ tabs[i].shown \in Seq(Msgs)
                                  /\ tabs[i].thresh \in 0 .. 3 /\ tabs[i].gone \in Nat
        /\ cur \in DOMAIN tabs /\ slider \in 0 .. 3
    <3>1. tabs \in Seq(TabState) /\ cur \in 1 .. Len(tabs) /\ slider \in 0 .. 3
      BY DEF TabTypes
    <3>2. \A i \in DOMAIN tabs : tabs[i] \in TabState
      BY <3>1
    <3>. QED BY <3>1, <3>2, TabStateFields
  <2>5. TypeOK
    BY <2>1, <2>2, <2>3, <2>4 DEF TypeOK
  <2>6. IndexIsPool
    <3>. SUFFICES ASSUME NEW d \in Dims
                  PROVE  /\ index[d] = [k \in {Attr[d][m] : m \in ToSet(pool)} |->
                                          Keep(pool, {m \in Msgs : Attr[d][m] = k})]
                         /\ lists[d] = DOMAIN index[d]
      BY DEF IndexIsPool
    <3>1. index[d] = ByKey(d, pool) /\ lists[d] = KeysOf(d, pool)
      BY DEF Indexed
    <3>. QED BY <3>1 DEF ByKey, KeysOf, KeyedBy
  <2>. QED BY <2>2, <2>5, <2>6 DEF PoolInv
<1>. QED BY InitView, ViewInductive, <1>1, PTL DEF Spec

\* A new tab has no message that has left the pool, whatever is selected in the three
\* lists (mvdlg.cc:398, 724-785).
THEOREM NewTabsFromPool == Spec => NewFiltersFromPool
<1>1. ASSUME ViewInv, [Next]_vars, Len(tabs') > Len(tabs)
      PROVE  ToSet(tabs'[Len(tabs')].msgs) \subseteq ToSet(pool)
  <2>. USE DEF ViewInv
  <2>0. tabs \in Seq(TabState) /\ Len(tabs) \in Nat
    BY <1>1 DEF TabTypes
  <2>1. tabs' # tabs /\ Len(tabs') # Len(tabs) /\ Len(tabs') # Len(tabs) - 1
    BY <1>1, <2>0
  <2>2. \A m \in Msgs : ~Drop(m) /\ ~NewMsg(m)
    BY <1>1, <2>1, NewMsgTabs DEF Drop
  <2>3. \A s \in Levels : ~SetSev(s)
    BY <1>1, <2>1, SetSevTabs
  <2>4. \A i \in DOMAIN tabs : ~CloseTab(i)
    BY <1>1, <2>1, CloseTabTabs
  <2>5. ASSUME NEW i \in DOMAIN tabs, SwitchTab(i) PROVE FALSE
    <3>1. i \in 1 .. Len(tabs) /\ CurrentChanged(tabs, i)
      BY <2>0, <2>5 DEF SwitchTab
    <3>. QED BY <2>0, <2>1, <3>1, CurrentChangedIs
  <2>6. ~Toggle /\ ~Clear /\ ~ShortMode /\ ~UNCHANGED vars
    BY <1>1, <2>1, ClearTabs, ShortModeTabs DEF Toggle, vars
  <2>7. PICK sel \in Selections : SetFilter(sel)
    BY <1>1, <2>2, <2>3, <2>4, <2>5, <2>6 DEF Next
  <2>. DEFINE f == Filtered(sel)
              new == NewTab(sel, f)
              ts == Append(tabs, new)
  <2>8. f \in Seq(Msgs) /\ ToSet(f) \subseteq ToSet(pool)
    BY <1>1, FilteredFacts
  <2>9. new.msgs = f
    BY TabFields DEF NewTab
  <2>. HIDE DEF f, new
  <2>10. \/ UNCHANGED <<tabs, cur, slider>>
         \/ cur' \in 1 .. Len(tabs) /\ CurrentChanged(tabs, cur')
         \/ cur' = Len(tabs) + 1 /\ CurrentChanged(ts, cur') /\ ts \in Seq(TabState)
    BY <1>1, <2>7, SetFilterTabs DEF new, f
  <2>11. ~(cur' \in 1 .. Len(tabs) /\ CurrentChanged(tabs, cur'))
    BY <2>0, <2>1, CurrentChangedIs
  <2>12. Len(ts) = Len(tabs) + 1 /\ ts[Len(tabs) + 1] = new
    BY <2>0
  <2>. HIDE DEF ts
  <2>13. cur' = Len(ts) /\ cur' \in 1 .. Len(ts) /\ CurrentChanged(ts, cur') /\ ts \in Seq(TabState)
    BY <2>0, <2>1, <2>10, <2>11, <2>12
  <2>14. Len(tabs') = cur' /\ SameView(tabs'[cur'], ts[cur'])
    BY <2>13, CurrentChangedIs
  <2>. QED BY <2>8, <2>9, <2>12, <2>13, <2>14 DEF SameView
<1>2. ViewInv /\ [Next]_vars =>
        [Len(tabs') > Len(tabs) => ToSet(tabs'[Len(tabs')].msgs) \subseteq ToSet(pool)]_vars
  BY <1>1
<1>. QED BY InitView, ViewInductive, <1>2, PTL DEF Spec, NewFiltersFromPool

-----------------------------------------------------------------------------
(* What is on display.                                                     *)

\* The current tab is displayed, and the slider has its threshold.
OnDisplay == Good(tabs[cur]) /\ slider = tabs[cur].thresh

\* A tab is closed to the right of the current one, or at the right end: another close
\* displays a tab by a position that is about to change (mvdlg.cc:1074-1115).
ClosesRight(i) == i > cur \/ i = Len(tabs)

LEMMA InitDisplay == Init => OnDisplay
<1>. SUFFICES ASSUME Init PROVE OnDisplay
  OBVIOUS
<1>. DEFINE z == <<>>
            t == Tab(NoFilter, z, SINFO, z, 0)
<1>1. z \in Seq(Msgs) /\ Len(z) = 0 /\ \A T : Keep(z, T) = z
  BY EmptyIs
<1>2. Rest(z, 0) = z
  BY DEF Rest
<1>. HIDE DEF z
<1>3. t.msgs = z /\ t.thresh = SINFO /\ t.shown = z /\ t.gone = 0
  BY TabFields
<1>4. tabs[cur] = t /\ slider = SINFO
  BY DEF Init, NewTab, z
<1>. HIDE DEF t
<1>5. Shows(t)
  BY <1>1, <1>2, <1>3 DEF Shows, Visible
<1>6. FewGone(t)
  BY <1>3, ViewerAssumption DEF FewGone
<1>. QED BY <1>3, <1>4, <1>5, <1>6 DEF OnDisplay, Good

LEMMA DisplayInductive ==
  ASSUME ViewInv, OnDisplay, [Next]_vars, \A i \in DOMAIN tabs : CloseTab(i) => ClosesRight(i)
  PROVE  OnDisplay'
<1>. USE DEF ViewInv
<1>0. tabs \in Seq(TabState) /\ cur \in DOMAIN tabs /\ cur \in 1 .. Len(tabs)
  BY DEF TabTypes
<1>1. ASSUME UNCHANGED <<tabs, cur, slider>> PROVE OnDisplay'
  BY <1>1 DEF OnDisplay, Good, Shows, FewGone
<1>2. ASSUME NEW ts \in Seq(TabState), cur' \in 1 .. Len(ts), CurrentChanged(ts, cur')
      PROVE  OnDisplay'
  <2>1. Good(tabs'[cur']) /\ slider' = tabs'[cur'].thresh
    BY <1>2, CurrentChangedIs
  <2>. QED BY <2>1 DEF OnDisplay, Good, Shows, FewGone
<1>3. ASSUME Good(tabs'[cur']), slider' = tabs'[cur'].thresh PROVE OnDisplay'
  BY <1>3 DEF OnDisplay, Good, Shows, FewGone
<1>4. ASSUME NEW m \in Msgs, NewMsg(m) PROVE OnDisplay'
  <2>1. Good(tabs'[cur']) /\ cur' = cur /\ slider' = slider
    BY <1>4, NewMsgTabs DEF OnDisplay, Good
  <2>2. tabs'[cur'].thresh = tabs[cur].thresh
    BY <1>0, <1>4, <2>1, NewMsgTabs
  <2>. QED BY <1>3, <2>1, <2>2 DEF OnDisplay
<1>5. ASSUME (\E m \in Msgs : Drop(m)) \/ Toggle \/ UNCHANGED vars PROVE OnDisplay'
  BY <1>1, <1>5 DEF Drop, Receive, Toggle, vars
<1>6. ASSUME NEW sel \in Selections, SetFilter(sel) PROVE OnDisplay'
  <2>. DEFINE ts == Append(tabs, NewTab(sel, Filtered(sel)))
  <2>1. Len(ts) = Len(tabs) + 1 /\ Len(tabs) \in Nat
    BY <1>0
  <2>2. \/ UNCHANGED <<tabs, cur, slider>>
        \/ cur' \in 1 .. Len(tabs) /\ CurrentChanged(tabs, cur')
        \/ cur' = Len(tabs) + 1 /\ CurrentChanged(ts, cur') /\ ts \in Seq(TabState)
    BY <1>6, SetFilterTabs
  <2>. HIDE DEF ts
  <2>3. cur' = Len(tabs) + 1 => cur' \in 1 .. Len(ts)
    BY <2>1
  <2>. QED BY <1>0, <1>1, <1>2, <2>2, <2>3
<1>7. ASSUME NEW s \in Levels, SetSev(s) PROVE OnDisplay'
  <2>1. cur' = cur /\ slider' = tabs'[cur].thresh
    BY <1>7, SetSevTabs
  <2>2. Good(tabs'[cur])
    BY <1>7, SetSevTabs DEF OnDisplay
  <2>. QED BY <1>3, <2>1, <2>2
<1>8. ASSUME NEW i \in DOMAIN tabs, SwitchTab(i) PROVE OnDisplay'
  BY <1>0, <1>2, <1>8 DEF SwitchTab
<1>9. ASSUME NEW i \in DOMAIN tabs, CloseTab(i) PROVE OnDisplay'
  <2>1. CASE i > cur
    <3>1. cur' = cur /\ slider' = slider /\ tabs'[cur] = tabs[cur]
      BY <1>9, <2>1, CloseTabTabs
    <3>. QED BY <1>3, <3>1 DEF OnDisplay
  <2>2. CASE ~(i > cur)
    <3>1. i = Len(tabs)
      BY <1>9, <2>2 DEF ClosesRight
    <3>. QED BY <1>3, <1>9, <2>2, <3>1, CloseTabTabs
  <2>. QED BY <2>1, <2>2
<1>10. ASSUME Clear PROVE OnDisplay'
  <2>1. cur' = cur /\ slider' = slider /\ Good(tabs'[cur]) /\ tabs'[cur].thresh = tabs[cur].thresh
    BY <1>0, <1>10, ClearTabs
  <2>. QED BY <1>3, <2>1 DEF OnDisplay
<1>11. ASSUME ShortMode PROVE OnDisplay'
  <2>1. cur' = cur /\ slider' = slider /\ Good(tabs'[cur]) /\ tabs'[cur].thresh = tabs[cur].thresh
    BY <1>0, <1>11, ShortModeTabs
  <2>. QED BY <1>3, <2>1 DEF OnDisplay
<1>. QED BY <1>4, <1>5, <1>6, <1>7, <1>8, <1>9, <1>10, <1>11 DEF Next

\* The current tab shows all of its messages at or above its threshold, few that are
\* gone, and the slider is its threshold, for any messages, limits and filters, as long
\* as tabs are closed to the right of the current one or at the right end
\* (mvdlg.cc:413-515, 898-964, 1040-1115).
THEOREM DisplayIsTrue ==
  Spec /\ [][\A i \in DOMAIN tabs : CloseTab(i) => i > cur \/ i = Len(tabs)]_vars
  => []DisplayInv
<1>1. ASSUME ViewInv, OnDisplay, [Next]_vars,
             [\A i \in DOMAIN tabs : CloseTab(i) => i > cur \/ i = Len(tabs)]_vars
      PROVE  OnDisplay'
  <2>1. CASE UNCHANGED vars
    BY <1>1, <2>1 DEF vars, OnDisplay, Good, Shows, FewGone
  <2>2. CASE \A i \in DOMAIN tabs : CloseTab(i) => ClosesRight(i)
    BY <1>1, <2>2, DisplayInductive
  <2>. QED BY <1>1, <2>1, <2>2 DEF ClosesRight
<1>2. OnDisplay => DisplayInv
  BY DEF OnDisplay, Good, Shows, FewGone, DisplayInv, ShownIsComplete, SliderIsThreshold,
         GoneIsBounded
<1>3. ViewInv /\ OnDisplay /\ [Next]_vars
      /\ [\A i \in DOMAIN tabs : CloseTab(i) => i > cur \/ i = Len(tabs)]_vars => OnDisplay'
  BY <1>1
<1>. QED BY InitView, ViewInductive, InitDisplay, <1>2, <1>3, PTL DEF Spec

-----------------------------------------------------------------------------
(* What a tab has.                                                         *)

MatchedBy(filter) == {m \in Msgs : Matches(filter, m)}

\* The sequence t ends with s.
Ends(t, s) == \E r \in Seq(Msgs) : t = r \o s

\* A tab has messages that match, and at its end those of the pool p, in their order.
Holds(t, p) ==
  ToSet(t.msgs) \subseteq MatchedBy(t.filter) /\ Ends(t.msgs, Keep(p, MatchedBy(t.filter)))

TabsHold == \A j \in DOMAIN tabs : Holds(tabs[j], pool)

\* Each selection is one item of one list.
OneOf(d, k) == [e \in Dims |-> IF e = d THEN {k} ELSE {}]
OneItemEach == \A sel \in Selections : \E d \in Dims : \E k : sel = OneOf(d, k)

LEMMA ConcatAppend ==
  ASSUME NEW x \in Seq(Msgs), NEW y \in Seq(Msgs), NEW m \in Msgs
  PROVE  Append(x \o y, m) = x \o Append(y, m)
<1>1. <<m>> \in Seq(Msgs)
  OBVIOUS
<1>2. Append(x \o y, m) = (x \o y) \o <<m>> /\ Append(y, m) = y \o <<m>>
  BY AppendIsConcat
<1>3. (x \o y) \o <<m>> = x \o (y \o <<m>>)
  BY <1>1, ConcatAssociative
<1>. QED BY <1>2, <1>3

LEMMA ConcatThree ==
  ASSUME NEW x \in Seq(Msgs), NEW y \in Seq(Msgs), NEW z \in Seq(Msgs)
  PROVE  (x \o y) \o z = x \o (y \o z) /\ x \o y \in Seq(Msgs)
BY ConcatAssociative

LEMMA RestOfConcat ==
  ASSUME NEW x \in Seq(Msgs), NEW y \in Seq(Msgs), NEW n \in 0 .. Len(x)
  PROVE  Rest(x \o y, n) = Rest(x, n) \o y
<1>. DEFINE b == Rest(x, n)
            r == Rest(x \o y, n)
            l == Len(x)
            k == Len(y)
<1>1. l \in Nat /\ k \in Nat /\ n \in 0 .. l /\ l - n \in Nat
  OBVIOUS
<1>2. b \in Seq(Msgs) /\ Len(b) = l - n /\ \A i \in 1 .. l - n : b[i] = x[n + i]
  BY SplitAt
<1>3. x \o y \in Seq(Msgs) /\ Len(x \o y) = l + k
  OBVIOUS
<1>4. n \in 0 .. Len(x \o y)
  BY <1>1, <1>3
<1>5. /\ r \in Seq(Msgs) /\ Len(r) = l + k - n
      /\ \A i \in 1 .. l + k - n : r[i] = (x \o y)[n + i]
  <2>. DEFINE z == x \o y
  <2>1. z \in Seq(Msgs) /\ n \in 0 .. Len(z) /\ Len(z) = l + k
    BY <1>3, <1>4
  <2>. HIDE DEF z
  <2>2. /\ Rest(z, n) \in Seq(Msgs) /\ Len(Rest(z, n)) = Len(z) - n
        /\ \A i \in 1 .. Len(z) - n : Rest(z, n)[i] = z[n + i]
    BY <2>1, SplitAt
  <2>. QED BY <2>1, <2>2 DEF z
<1>. HIDE DEF b, r
<1>6. b \o y \in Seq(Msgs) /\ Len(b \o y) = l + k - n
  <2>1. b \in Seq(Msgs)
    BY <1>2
  <2>2. b \o y \in Seq(Msgs)
    BY <2>1
  <2>3. Len(b \o y) = Len(b) + Len(y)
    BY <2>1
  <2>4. (l - n) + k = l + k - n
    BY <1>1
  <2>. QED BY <1>2, <2>2, <2>3, <2>4
<1>7. ASSUME NEW i \in 1 .. l + k - n PROVE r[i] = (b \o y)[i]
  <2>1. n + i \in 1 .. l + k /\ r[i] = (x \o y)[n + i]
    BY <1>1, <1>5
  <2>2. CASE i <= l - n
    <3>1. (b \o y)[i] = b[i] /\ i \in 1 .. l - n
      BY <1>1, <1>2, <2>2
    <3>2. (x \o y)[n + i] = x[n + i]
      BY <1>1, <2>1, <2>2
    <3>. QED BY <1>2, <2>1, <3>1, <3>2
  <2>3. CASE ~(i <= l - n)
    <3>1. (b \o y)[i] = y[i - (l - n)]
      BY <1>1, <1>2, <2>3
    <3>2. (x \o y)[n + i] = y[(n + i) - l]
      BY <1>1, <2>1, <2>3
    <3>3. i - (l - n) = (n + i) - l
      BY <1>1
    <3>. QED BY <2>1, <3>1, <3>2, <3>3
  <2>. QED BY <2>2, <2>3
<1>. DEFINE c == b \o y
<1>8. c \in Seq(Msgs) /\ Len(c) = Len(r) /\ \A i \in 1 .. Len(r) : r[i] = c[i]
  BY <1>5, <1>6, <1>7
<1>. HIDE DEF c, l, k
<1>9. r = c
  BY <1>5, <1>8, SeqEqual
<1>. QED BY <1>9 DEF r, c, b

LEMMA RestSet ==
  ASSUME NEW x \in Seq(Msgs), NEW n \in 0 .. Len(x)
  PROVE  ToSet(Rest(x, n)) \subseteq ToSet(x)
<1>. DEFINE b == Rest(x, n)
<1>1. b \in Seq(Msgs) /\ Len(b) = Len(x) - n /\ \A i \in 1 .. Len(x) - n : b[i] = x[n + i]
  BY SplitAt
<1>2. \A i \in 1 .. Len(x) - n : n + i \in DOMAIN x
  OBVIOUS
<1>. HIDE DEF b
<1>3. DOMAIN b = 1 .. Len(x) - n
  BY <1>1
<1>. QED BY <1>1, <1>2, <1>3 DEF b, ToSet

\* A message comes: the pool and the tab are trimmed, the pool first, and both take it.
LEMMA HoldsStill ==
  ASSUME NEW p \in Seq(Msgs), NEW n \in 0 .. Len(p), Len(p) - n < MaxMsgs, NEW m \in Msgs,
         NEW t, t.msgs \in Seq(Msgs), Holds(t, p),
         NEW u, u.filter = t.filter,
         u.msgs = LET r == Rest(t.msgs, Excess(t.msgs, MaxMsgs))
                  IN  IF Matches(t.filter, m) THEN Append(r, m) ELSE r
  PROVE  Holds(u, Append(Rest(p, n), m))
<1>. DEFINE M == MatchedBy(t.filter)
            a == Oldest(p, n)
            q == Rest(p, n)
            ka == Keep(a, M)
            kq == Keep(q, M)
            s == t.msgs
            e == Excess(s, MaxMsgs)
            w == Rest(s, e)
<1>1. /\ a \in Seq(Msgs) /\ q \in Seq(Msgs) /\ p = a \o q /\ Len(q) = Len(p) - n
      /\ Len(p) \in Nat
  BY SplitAt, SplitIs
<1>. HIDE DEF a, q, M
<1>2. /\ ka \in Seq(Msgs) /\ kq \in Seq(Msgs) /\ Len(kq) <= Len(q)
      /\ Keep(p, M) = ka \o kq
  BY <1>1, KeepType, KeepConcat
<1>3. PICK r \in Seq(Msgs) : s = r \o Keep(p, M)
  BY DEF Holds, Ends, M
<1>. HIDE DEF ka, kq
<1>. DEFINE x == r \o ka
<1>4. x \in Seq(Msgs) /\ s = x \o kq /\ s \in Seq(Msgs)
  <2>1. ka \in Seq(Msgs) /\ kq \in Seq(Msgs)
    BY <1>2
  <2>2. (r \o ka) \o kq = r \o (ka \o kq) /\ r \o ka \in Seq(Msgs)
    BY <2>1, ConcatThree
  <2>. QED BY <1>2, <1>3, <2>2
<1>. HIDE DEF x, s
<1>5. Len(s) = Len(x) + Len(kq) /\ Len(x) \in Nat /\ Len(kq) \in Nat /\ Len(kq) < MaxMsgs
      /\ MaxMsgs \in Nat /\ Len(s) \in Nat
  <2>1. Len(s) = Len(x) + Len(kq) /\ Len(x) \in Nat /\ Len(kq) \in Nat /\ Len(s) \in Nat
    BY <1>2, <1>4
  <2>. QED BY <1>1, <1>2, <2>1, ViewerAssumption
<1>6. e \in 0 .. Len(x) /\ e \in 0 .. Len(s)
  BY <1>5 DEF Excess
<1>. HIDE DEF e
<1>7. w = Rest(x, e) \o kq /\ Rest(x, e) \in Seq(Msgs) /\ w \in Seq(Msgs)
  BY <1>2, <1>4, <1>6, RestOfConcat, SplitAt
<1>8. ToSet(w) \subseteq M
  <2>1. ToSet(s) \subseteq M
    BY DEF Holds, s, M
  <2>. QED BY <1>4, <1>6, <2>1, RestSet
<1>9. u.msgs = IF Matches(t.filter, m) THEN Append(w, m) ELSE w
  BY DEF e, s
<1>. HIDE DEF w
<1>. DEFINE y == Rest(x, e)
            P == Append(q, m)
<1>10. Matches(t.filter, m) <=> m \in M
  BY DEF M, MatchedBy
<1>11. Keep(P, M) = IF m \in M THEN Append(kq, m) ELSE kq
  BY <1>1, KeepAppend DEF kq
<1>. HIDE DEF y, P
<1>12. y \in Seq(Msgs) /\ w = y \o kq
  BY <1>7 DEF y
<1>13. CASE m \in M
  <2>1. u.msgs = Append(w, m) /\ Keep(P, M) = Append(kq, m)
    BY <1>9, <1>10, <1>11, <1>13
  <2>2. Append(y \o kq, m) = y \o Append(kq, m)
    <3>1. y \in Seq(Msgs) /\ kq \in Seq(Msgs)
      BY <1>2, <1>12
    <3>. QED BY <3>1, ConcatAppend
  <2>3. u.msgs = y \o Keep(P, M)
    BY <1>12, <2>1, <2>2
  <2>4. ToSet(u.msgs) \subseteq M
    <3>1. w \in Seq(Msgs)
      BY <1>7
    <3>2. ToSet(Append(w, m)) = ToSet(w) \cup {m}
      BY <3>1, ToSetAppend
    <3>. QED BY <1>8, <1>13, <2>1, <3>2
  <2>. QED BY <1>12, <2>3, <2>4 DEF Holds, Ends, M, P, q
<1>14. CASE m \notin M
  <2>1. u.msgs = w /\ Keep(P, M) = kq
    BY <1>9, <1>10, <1>11, <1>14
  <2>. QED BY <1>8, <1>12, <2>1 DEF Holds, Ends, M, P, q
<1>. QED BY <1>13, <1>14

LEMMA SelectedNone ==
  ASSUME CountInv, Indexed, NEW d \in Dims
  PROVE  Selected(d, {}) = <<>>
<1>. DEFINE s == Selected(d, {})
<1>1. s \in Seq(Msgs) /\ ToSet(s) = {}
  BY SelectedFacts
<1>. HIDE DEF s
<1>2. ~(1 \in DOMAIN s)
  BY <1>1 DEF ToSet
<1>3. s = <<>>
  BY <1>1, <1>2
<1>. QED BY <1>3 DEF s

\* The messages of the pool with the one item that is selected.
LEMMA FilteredOne ==
  ASSUME CountInv, Indexed, NEW d \in Dims, NEW k \in lists[d]
  PROVE  Filtered(OneOf(d, k)) = Keep(pool, MatchedBy(OneOf(d, k)))
<1>. DEFINE sel == OneOf(d, k)
<1>1. k \in DOMAIN index[d]
  BY IndexFacts DEF Indexed
<1>2. Selected(d, {k}) = Keep(pool, KeyedBy(d, k))
  BY <1>1, SelectedOne
<1>3. MatchedBy(sel) = KeyedBy(d, k)
  <2>1. \A m \in Msgs : Matches(sel, m) <=> Attr[d][m] = k
    BY DEF Matches, OneOf
  <2>. QED BY <2>1 DEF MatchedBy, KeyedBy
<1>4. /\ "app" \in Dims /\ "host" \in Dims /\ "cat" \in Dims
      /\ \A e \in Dims : sel[e] = IF e = d THEN {k} ELSE {}
      /\ d \in {"app", "host", "cat"}
  BY DEF Dims, OneOf
<1>. HIDE DEF sel
<1>5. CASE d = "app"
  <2>1. sel["app"] = {k} /\ sel["host"] = {} /\ sel["cat"] = {}
    BY <1>4, <1>5
  <2>. QED BY <1>2, <1>3, <1>5, <2>1 DEF Filtered, Narrow, sel
<1>6. CASE d = "host"
  <2>1. sel["app"] = {} /\ sel["host"] = {k} /\ sel["cat"] = {}
    BY <1>4, <1>6
  <2>2. Selected("app", {}) = <<>>
    BY <1>4, SelectedNone
  <2>. QED BY <1>2, <1>3, <1>6, <2>1, <2>2 DEF Filtered, Narrow, sel
<1>7. CASE d = "cat"
  <2>1. sel["app"] = {} /\ sel["host"] = {} /\ sel["cat"] = {k}
    BY <1>4, <1>7
  <2>2. Selected("app", {}) = <<>>
    BY <1>4, SelectedNone
  <2>. QED BY <1>2, <1>3, <1>7, <2>1, <2>2 DEF Filtered, Narrow, sel
<1>. QED BY <1>4, <1>5, <1>6, <1>7

LEMMA EmptyHolds ==
  ASSUME NEW t, NEW p, t.msgs = <<>>, p = <<>>
  PROVE  Holds(t, p)
<1>. DEFINE z == <<>>
<1>1. z \in Seq(Msgs) /\ ToSet(z) = {} /\ \A T : Keep(z, T) = z
  BY EmptyIs
<1>2. z = z \o z
  OBVIOUS
<1>3. t.msgs = z /\ p = z
  OBVIOUS
<1>. HIDE DEF z
<1>. QED BY <1>1, <1>2, <1>3 DEF Holds, Ends

LEMMA InitHold == Init => TabsHold
<1>. SUFFICES ASSUME Init PROVE TabsHold
  OBVIOUS
<1>. DEFINE z == <<>>
            t == Tab(NoFilter, z, SINFO, z, 0)
<1>1. t.msgs = <<>> /\ tabs = <<t>> /\ pool = <<>>
  BY TabFields DEF Init, NewTab
<1>2. Holds(t, pool)
  BY <1>1, EmptyHolds
<1>. HIDE DEF t
<1>3. \A j \in DOMAIN tabs : tabs[j] = t
  BY <1>1
<1>. QED BY <1>2, <1>3 DEF TabsHold

LEMMA HoldInductive ==
  ASSUME OneItemEach, MaxMsgs > 0, ViewInv, TabsHold, [Next]_vars
  PROVE  TabsHold'
<1>. USE DEF ViewInv
<1>0. tabs \in Seq(TabState) /\ DOMAIN tabs = 1 .. Len(tabs) /\ Len(tabs) \in Nat
      /\ cur \in 1 .. Len(tabs) /\ \A j \in DOMAIN tabs : tabs[j] \in TabState
  BY DEF TabTypes
<1>1. ASSUME NEW t, NEW u, SameView(u, t), Holds(t, pool) PROVE Holds(u, pool)
  BY <1>1 DEF SameView, Holds
<1>2. ASSUME pool' = pool, \A j \in DOMAIN tabs' : \E k \in DOMAIN tabs : SameView(tabs'[j], tabs[k])
      PROVE  TabsHold'
  <2>. SUFFICES ASSUME NEW j \in DOMAIN tabs' PROVE Holds(tabs'[j], pool)
    BY <1>2 DEF TabsHold, Holds
  <2>1. PICK k \in DOMAIN tabs : SameView(tabs'[j], tabs[k])
    BY <1>2
  <2>2. Holds(tabs[k], pool)
    BY DEF TabsHold
  <2>. QED BY <1>1, <2>1, <2>2
<1>3. ASSUME UNCHANGED <<pool, tabs>> PROVE TabsHold'
  BY <1>3 DEF TabsHold
<1>4. ASSUME NEW ts \in Seq(TabState), NEW i \in 1 .. Len(ts), CurrentChanged(ts, i), pool' = pool,
             \A j \in 1 .. Len(ts) : Holds(ts[j], pool)
      PROVE  TabsHold'
  <2>1. /\ tabs' \in Seq(TabState) /\ Len(tabs') = Len(ts)
        /\ \A j \in 1 .. Len(ts) : SameView(tabs'[j], ts[j])
    BY <1>4, CurrentChangedIs
  <2>2. DOMAIN tabs' = 1 .. Len(ts)
    BY <2>1
  <2>3. \A j \in DOMAIN tabs' : Holds(tabs'[j], pool)
    BY <1>1, <1>4, <2>1, <2>2
  <2>. QED BY <1>4, <2>3 DEF TabsHold, Holds
<1>5. ASSUME (\E m \in Msgs : Drop(m)) \/ Toggle \/ UNCHANGED vars PROVE TabsHold'
  BY <1>3, <1>5 DEF Drop, Toggle, vars
<1>6. ASSUME NEW m \in Msgs, NewMsg(m) PROVE TabsHold'
  <2>. DEFINE n == Gone(m)
              p == Append(Rest(pool, n), m)
  <2>1. pool \in Seq(Msgs) /\ n \in 0 .. Len(pool) /\ Len(pool) - n < MaxMsgs
    BY GoneIs, MaxMsgs > 0 DEF CountInv
  <2>2. pool' = p /\ TabTypes' /\ Len(tabs') = Len(tabs)
    BY <1>6, NewMsgIs, NewMsgTabs
  <2>. HIDE DEF n
  <2>3. ASSUME NEW j \in DOMAIN tabs PROVE Holds(tabs'[j], p)
    <3>. DEFINE t == tabs[j]
                u == tabs'[j]
    <3>1. /\ u.filter = t.filter
          /\ u.msgs = LET r == Rest(t.msgs, Excess(t.msgs, MaxMsgs))
                      IN  IF Matches(t.filter, m) THEN Append(r, m) ELSE r
      BY <1>6, NewMsgTabs
    <3>2. Holds(t, pool) /\ t.msgs \in Seq(Msgs)
      BY <1>0, TabStateFields DEF TabsHold
    <3>. HIDE DEF t, u
    <3>3. Holds(u, p)
      BY <2>1, <3>1, <3>2, HoldsStill
    <3>. QED BY <3>3 DEF u
  <2>4. DOMAIN tabs' = DOMAIN tabs
    BY <1>0, <2>2 DEF TabTypes
  <2>. HIDE DEF p
  <2>5. \A j \in DOMAIN tabs' : Holds(tabs'[j], p)
    BY <2>3, <2>4
  <2>. QED BY <2>2, <2>5 DEF TabsHold, Holds
<1>7. ASSUME NEW sel \in Selections, SetFilter(sel) PROVE TabsHold'
  <2>. DEFINE f == Filtered(sel)
              new == NewTab(sel, f)
              ts == Append(tabs, new)
  <2>1. PICK d \in Dims : \E k : sel = OneOf(d, k)
    BY <1>7 DEF OneItemEach
  <2>2. PICK k : sel = OneOf(d, k)
    BY <2>1
  <2>3. k \in lists[d]
    <3>1. sel[d] \subseteq lists[d]
      BY <1>7 DEF SetFilter
    <3>. QED BY <2>2, <3>1 DEF OneOf
  <2>4. f = Keep(pool, MatchedBy(sel))
    BY <2>2, <2>3, FilteredOne
  <2>5. new.msgs = f /\ new.filter = sel
    BY TabFields DEF NewTab
  <2>6. pool' = pool /\ pool \in Seq(Msgs)
    BY <1>7 DEF SetFilter, CountInv
  <2>. HIDE DEF f, new
  <2>7. Holds(new, pool)
    <3>. DEFINE z == <<>>
    <3>1. f \in Seq(Msgs) /\ ToSet(f) \subseteq MatchedBy(sel)
      BY <2>4, <2>6, KeepType, KeepSet
    <3>2. z \in Seq(Msgs) /\ f = z \o f
      BY <3>1, ConcatEmptySeq
    <3>. HIDE DEF z
    <3>. QED BY <2>4, <2>5, <3>1, <3>2 DEF Holds, Ends
  <2>8. \/ UNCHANGED <<tabs, cur, slider>>
        \/ cur' \in 1 .. Len(tabs) /\ CurrentChanged(tabs, cur')
        \/ cur' = Len(tabs) + 1 /\ CurrentChanged(ts, cur') /\ ts \in Seq(TabState)
    BY <1>7, SetFilterTabs DEF new, f
  <2>9. \A j \in 1 .. Len(tabs) : Holds(tabs[j], pool)
    BY <1>0 DEF TabsHold
  <2>10. /\ Len(ts) = Len(tabs) + 1 /\ ts[Len(tabs) + 1] = new
         /\ \A j \in 1 .. Len(tabs) : ts[j] = tabs[j]
    BY <1>0
  <2>. HIDE DEF ts
  <2>11. \A j \in 1 .. Len(ts) : Holds(ts[j], pool)
    <3>1. \A j \in 1 .. Len(ts) : j \in 1 .. Len(tabs) \/ j = Len(tabs) + 1
      BY <1>0, <2>10
    <3>. QED BY <2>7, <2>9, <2>10, <3>1
  <2>12. cur' = Len(tabs) + 1 => cur' \in 1 .. Len(ts)
    BY <1>0, <2>10
  <2>. QED BY <1>0, <1>3, <1>4, <2>6, <2>8, <2>9, <2>11, <2>12
<1>8. ASSUME NEW s \in Levels, SetSev(s) PROVE TabsHold'
  <2>1. TabTypes' /\ Len(tabs') = Len(tabs) /\ \A j \in DOMAIN tabs : SameView(tabs'[j], tabs[j])
    BY <1>8, SetSevTabs
  <2>2. DOMAIN tabs' = DOMAIN tabs
    BY <1>0, <2>1 DEF TabTypes
  <2>. QED BY <1>2, <1>8, <2>1, <2>2 DEF SetSev
<1>9. ASSUME NEW i \in DOMAIN tabs, SwitchTab(i) PROVE TabsHold'
  BY <1>0, <1>4, <1>9 DEF SwitchTab, TabsHold
<1>10. ASSUME NEW i \in DOMAIN tabs, CloseTab(i) PROVE TabsHold'
  BY <1>2, <1>10, CloseTabTabs DEF CloseTab
<1>11. ASSUME Clear PROVE TabsHold'
  <2>1. /\ TabTypes' /\ Len(tabs') = Len(tabs) /\ pool' = <<>>
        /\ \A j \in DOMAIN tabs : tabs'[j].msgs = <<>>
    BY <1>11, ClearTabs DEF Clear
  <2>2. DOMAIN tabs' = DOMAIN tabs
    BY <1>0, <2>1 DEF TabTypes
  <2>3. \A j \in DOMAIN tabs' : Holds(tabs'[j], pool')
    BY <2>1, <2>2, EmptyHolds
  <2>. QED BY <2>3 DEF TabsHold, Holds
<1>12. ASSUME ShortMode PROVE TabsHold'
  <2>1. TabTypes' /\ Len(tabs') = Len(tabs) /\ \A j \in DOMAIN tabs : SameView(tabs'[j], tabs[j])
    BY <1>12, ShortModeTabs
  <2>2. DOMAIN tabs' = DOMAIN tabs
    BY <1>0, <2>1 DEF TabTypes
  <2>. QED BY <1>2, <1>12, <2>1, <2>2 DEF ShortMode
<1>. QED BY <1>5, <1>6, <1>7, <1>8, <1>9, <1>10, <1>11, <1>12 DEF Next

\* Every tab has exactly the messages of the pool that match its filter, and others
\* that match, for any messages and limits, if what is selected is one item of one list
\* and the buffer has a limit: then the index gives the messages in the order of arrival,
\* and a tab is trimmed after the pool (mvdlg.cc:337-411, 724-785).
THEOREM TabsAreTrue ==
  ASSUME OneItemEach, MaxMsgs > 0
  PROVE  Spec => []TabsInv
<1>1. ViewInv /\ TabsHold => TabsInv
  <2>. SUFFICES ASSUME ViewInv, TabsHold PROVE TabsInv
    OBVIOUS
  <2>1. ASSUME NEW i \in DOMAIN tabs, NEW m \in ToSet(pool), Matches(tabs[i].filter, m)
        PROVE  m \in ToSet(tabs[i].msgs)
    <3>. DEFINE M == MatchedBy(tabs[i].filter)
                k == Keep(pool, M)
    <3>1. pool \in Seq(Msgs) /\ m \in Msgs
      BY DEF ViewInv, CountInv, ToSet
    <3>2. m \in M
      BY <2>1, <3>1 DEF MatchedBy
    <3>3. PICK r \in Seq(Msgs) : tabs[i].msgs = r \o k
      BY DEF TabsHold, Holds, Ends
    <3>. HIDE DEF M
    <3>4. k \in Seq(Msgs) /\ m \in ToSet(k)
      BY <3>1, <3>2, KeepType, KeepSet
    <3>. HIDE DEF k
    <3>5. PICK j \in DOMAIN k : k[j] = m
      BY <3>4 DEF ToSet
    <3>6. (r \o k)[Len(r) + j] = m /\ Len(r) + j \in DOMAIN (r \o k)
      BY <3>4, <3>5
    <3>. QED BY <3>3, <3>6 DEF ToSet
  <2>2. OnlyMatching
    BY DEF TabsHold, Holds, MatchedBy, OnlyMatching
  <2>. QED BY <2>1, <2>2 DEF TabsInv, NothingHidden
<1>2. ViewInv /\ TabsHold /\ [Next]_vars => TabsHold'
  BY HoldInductive
<1>. QED BY InitView, ViewInductive, InitHold, <1>1, <1>2, PTL DEF Spec

-----------------------------------------------------------------------------
(* Selections in two lists.                                                *)

\* Each selection leaves a list empty.
ListLeft == \A sel \in Selections : \E d \in Dims : sel[d] = {}

LEMMA SelectedSome ==
  ASSUME CountInv, Indexed, NEW d \in Dims, NEW items, items # {}, items \subseteq lists[d]
  PROVE  Selected(d, items) # <<>>
<1>. DEFINE S == items \cap DOMAIN index[d]
            found == SetToSeq(S)
            l == Len(found)
            s == Selected(d, items)
<1>1. IsFiniteSet(S) /\ S # {}
  BY IndexFacts, FS_Subset DEF Indexed
<1>2. found \in [1 .. Cardinality(S) -> S] /\ Cardinality(S) \in Nat
  BY <1>1, SetToSeqIs
<1>3. Cardinality(S) # 0
  BY <1>1, FS_EmptySet
<1>4. PICK c : /\ MergedSteps(d, found, c)
               /\ \A i \in 0 .. l : c[i] \in WithItems(d, items)
               /\ s = c[l]
  BY SelectedIs
<1>. HIDE DEF S, found, s
<1>5. l \in Nat /\ l \in 1 .. l /\ l - 1 \in 0 .. l /\ found[l] \in S
  BY <1>2, <1>3
<1>. DEFINE a == c[l - 1]
            b == index[d][found[l]]
<1>6. s = Merge(a, b)
  BY <1>4, <1>5 DEF MergedSteps
<1>7. a \in Seq(Msgs)
  <2>1. a \in WithItems(d, items)
    BY <1>4, <1>5
  <2>. HIDE DEF a
  <2>. QED BY <2>1 DEF WithItems
<1>8. b \in Seq(Msgs) /\ b # <<>>
  <2>. DEFINE k == found[l]
  <2>1. k \in DOMAIN index[d]
    BY <1>5 DEF S
  <2>. HIDE DEF k
  <2>2. /\ DOMAIN index[d] = KeysOf(d, pool) /\ index[d][k] \in Seq(Msgs)
        /\ ToSet(index[d][k]) = ToSet(pool) \cap KeyedBy(d, k)
    BY <2>1, IndexFacts
  <2>3. PICK m \in ToSet(pool) : Attr[d][m] = k
    BY <2>1, <2>2 DEF KeysOf
  <2>4. m \in ToSet(index[d][k])
    BY <2>2, <2>3 DEF KeyedBy, CountInv, ToSet
  <2>5. index[d][k] # <<>>
    BY <2>4 DEF ToSet
  <2>. QED BY <2>2, <2>5 DEF k
<1>. HIDE DEF a, b
<1>9. Len(b) # 0 /\ Len(a) \in Nat /\ Len(b) \in Nat
  BY <1>7, <1>8
<1>10. s \in Seq(Msgs) /\ Len(s) = Len(a) + Len(b)
  BY <1>6, <1>7, <1>8, MergeFacts
<1>11. s # <<>>
  BY <1>9, <1>10
<1>. QED BY <1>11 DEF s

\* What is found matches, in one list or in two.
LEMMA FilteredMatches ==
  ASSUME CountInv, Indexed, NEW sel, \A d \in Dims : sel[d] \subseteq lists[d],
         \E d \in Dims : sel[d] = {}
  PROVE  ToSet(Filtered(sel)) \subseteq MatchedBy(sel)
<1>. DEFINE Found(d) == Selected(d, sel[d])
            Has(d) == {m \in Msgs : Attr[d][m] \in sel[d]}
<1>0. "app" \in Dims /\ "host" \in Dims /\ "cat" \in Dims
  BY DEF Dims
<1>1. ASSUME NEW d \in Dims
      PROVE  /\ Found(d) \in Seq(Msgs) /\ ToSet(Found(d)) \subseteq Has(d)
             /\ sel[d] = {} => Found(d) = <<>>
             /\ sel[d] # {} => Found(d) # <<>>
  <2>1. Found(d) \in Seq(Msgs) /\ \A m \in ToSet(Found(d)) : m \in ToSet(pool) /\ Attr[d][m] \in sel[d]
    BY SelectedFacts
  <2>2. ToSet(pool) \subseteq Msgs
    BY DEF CountInv, ToSet
  <2>3. sel[d] # {} => Found(d) # <<>>
    BY SelectedSome
  <2>4. sel[d] = {} => Found(d) = <<>>
    BY SelectedNone
  <2>. HIDE DEF Found
  <2>. QED BY <2>1, <2>2, <2>3, <2>4
<1>2. MatchedBy(sel) = {m \in Msgs : \A d \in Dims : sel[d] = {} \/ m \in Has(d)}
  BY DEF MatchedBy, Matches
<1>. DEFINE a == Found("app")
            h == Found("host")
            k == Found("cat")
            b == IF sel["host"] = {} THEN a ELSE IF a = <<>> THEN h ELSE ListIntersect(a, h)
            f == IF sel["cat"] = {} THEN b ELSE IF b = <<>> THEN k ELSE ListIntersect(b, k)
<1>3. Filtered(sel) = f
  BY DEF Filtered, Narrow
<1>4. /\ a \in Seq(Msgs) /\ h \in Seq(Msgs) /\ k \in Seq(Msgs)
      /\ ToSet(a) \subseteq Has("app") /\ ToSet(h) \subseteq Has("host")
      /\ ToSet(k) \subseteq Has("cat")
      /\ (sel["app"] = {} => a = <<>>) /\ (sel["app"] # {} => a # <<>>)
      /\ (sel["host"] # {} => h # <<>>)
  BY <1>0, <1>1
<1>. HIDE DEF Found, a, h, k
<1>5. /\ ListIntersect(a, h) \in Seq(Msgs)
      /\ ToSet(ListIntersect(a, h)) \subseteq ToSet(a) \cap ToSet(h)
  BY <1>4, IntersectFacts
<1>6. b \in Seq(Msgs)
  BY <1>4, <1>5
<1>7. /\ ListIntersect(b, k) \in Seq(Msgs)
      /\ ToSet(ListIntersect(b, k)) \subseteq ToSet(b) \cap ToSet(k)
  <2>. HIDE DEF b
  <2>. QED BY <1>4, <1>6, IntersectFacts
<1>8. sel["app"] = {} \/ sel["host"] = {} \/ sel["cat"] = {}
  BY DEF Dims
<1>9. \A s : s = <<>> => ToSet(s) = {}
  BY DEF ToSet
<1>10. ASSUME NEW m \in ToSet(f), NEW d \in Dims, sel[d] # {} PROVE m \in Has(d)
  <2>. HIDE DEF Has
  <2>1. CASE sel["app"] = {}
    <3>1. b = IF sel["host"] = {} THEN a ELSE h
      BY <1>4, <2>1
    <3>2. a = <<>> /\ (sel["host"] # {} => b # <<>>)
      BY <1>4, <2>1, <3>1
    <3>. QED BY <1>4, <1>7, <1>9, <1>10, <2>1, <3>1, <3>2 DEF Dims
  <2>2. CASE sel["app"] # {} /\ sel["host"] = {}
    <3>1. b = a /\ a # <<>>
      BY <1>4, <2>2
    <3>. QED BY <1>4, <1>7, <1>10, <2>2, <3>1 DEF Dims
  <2>3. CASE sel["app"] # {} /\ sel["host"] # {}
    <3>1. sel["cat"] = {} /\ b = ListIntersect(a, h)
      BY <1>4, <1>8, <2>3
    <3>. QED BY <1>4, <1>5, <1>10, <2>3, <3>1 DEF Dims
  <2>. QED BY <2>1, <2>2, <2>3
<1>11. f \in Seq(Msgs)
  BY <1>4, <1>6, <1>7
<1>12. ToSet(f) \subseteq Msgs
  <2>. HIDE DEF f
  <2>. QED BY <1>11 DEF ToSet
<1>. HIDE DEF f, Has
<1>. QED BY <1>2, <1>3, <1>10, <1>12

LEMMA MatchInductive ==
  ASSUME ListLeft, ViewInv, OnlyMatching, [Next]_vars
  PROVE  OnlyMatching'
<1>. USE DEF ViewInv
<1>0. tabs \in Seq(TabState) /\ DOMAIN tabs = 1 .. Len(tabs) /\ Len(tabs) \in Nat
      /\ cur \in 1 .. Len(tabs) /\ \A j \in DOMAIN tabs : tabs[j] \in TabState
  BY DEF TabTypes
<1>. DEFINE Fits(t) == \A m \in ToSet(t.msgs) : Matches(t.filter, m)
<1>1. ASSUME NEW t, NEW u, SameView(u, t), Fits(t) PROVE Fits(u)
  BY <1>1 DEF SameView
<1>2. ASSUME \A j \in DOMAIN tabs' : Fits(tabs'[j]) PROVE OnlyMatching'
  BY <1>2 DEF OnlyMatching, Matches
<1>3. \A j \in DOMAIN tabs : Fits(tabs[j])
  BY DEF OnlyMatching
<1>. HIDE DEF Fits
<1>4. ASSUME \A j \in DOMAIN tabs' : \E k \in DOMAIN tabs : SameView(tabs'[j], tabs[k])
      PROVE  OnlyMatching'
  BY <1>1, <1>2, <1>3, <1>4
<1>5. ASSUME tabs' = tabs PROVE OnlyMatching'
  BY <1>2, <1>3, <1>5
<1>6. ASSUME NEW ts \in Seq(TabState), NEW i \in 1 .. Len(ts), CurrentChanged(ts, i),
             \A j \in 1 .. Len(ts) : Fits(ts[j])
      PROVE  OnlyMatching'
  <2>1. /\ tabs' \in Seq(TabState) /\ Len(tabs') = Len(ts)
        /\ \A j \in 1 .. Len(ts) : SameView(tabs'[j], ts[j])
    BY <1>6, CurrentChangedIs
  <2>2. DOMAIN tabs' = 1 .. Len(ts)
    BY <2>1
  <2>. QED BY <1>1, <1>2, <1>6, <2>1, <2>2
<1>7. ASSUME (\E m \in Msgs : Drop(m)) \/ Toggle \/ UNCHANGED vars PROVE OnlyMatching'
  BY <1>5, <1>7 DEF Drop, Toggle, vars
<1>8. ASSUME NEW m \in Msgs, NewMsg(m) PROVE OnlyMatching'
  <2>1. TabTypes' /\ Len(tabs') = Len(tabs)
    BY <1>8, NewMsgTabs
  <2>2. DOMAIN tabs' = DOMAIN tabs
    BY <1>0, <2>1 DEF TabTypes
  <2>3. ASSUME NEW j \in DOMAIN tabs PROVE Fits(tabs'[j])
    <3>. DEFINE s == tabs[j].msgs
                n == Excess(s, MaxMsgs)
                r == Rest(s, n)
                F == tabs[j].filter
    <3>1. /\ tabs'[j].filter = F
          /\ tabs'[j].msgs = IF Matches(F, m) THEN Append(r, m) ELSE r
      BY <1>8, NewMsgTabs
    <3>2. s \in Seq(Msgs)
      BY <1>0, TabStateFields
    <3>3. \A x \in ToSet(s) : Matches(F, x)
      BY <1>3 DEF Fits
    <3>. HIDE DEF s, F
    <3>4. n \in 0 .. Len(s)
      BY <3>2, ViewerAssumption DEF Excess
    <3>. HIDE DEF n
    <3>5. r \in Seq(Msgs) /\ ToSet(r) \subseteq ToSet(s)
      BY <3>2, <3>4, SplitAt, RestSet
    <3>. HIDE DEF r
    <3>6. ToSet(Append(r, m)) = ToSet(r) \cup {m}
      BY <3>5, ToSetAppend
    <3>. QED BY <3>1, <3>3, <3>5, <3>6 DEF Fits
  <2>. QED BY <1>2, <2>2, <2>3
<1>9. ASSUME NEW sel \in Selections, SetFilter(sel) PROVE OnlyMatching'
  <2>. DEFINE f == Filtered(sel)
              new == NewTab(sel, f)
              ts == Append(tabs, new)
  <2>1. (\A d \in Dims : sel[d] \subseteq lists[d]) /\ \E d \in Dims : sel[d] = {}
    BY <1>9 DEF SetFilter, ListLeft
  <2>2. ToSet(f) \subseteq MatchedBy(sel)
    BY <2>1, FilteredMatches
  <2>3. new.msgs = f /\ new.filter = sel
    BY TabFields DEF NewTab
  <2>. HIDE DEF f, new
  <2>4. Fits(new)
    BY <2>2, <2>3 DEF Fits, MatchedBy
  <2>5. \/ UNCHANGED <<tabs, cur, slider>>
        \/ cur' \in 1 .. Len(tabs) /\ CurrentChanged(tabs, cur')
        \/ cur' = Len(tabs) + 1 /\ CurrentChanged(ts, cur') /\ ts \in Seq(TabState)
    BY <1>9, SetFilterTabs DEF new, f
  <2>6. /\ Len(ts) = Len(tabs) + 1 /\ ts[Len(tabs) + 1] = new
        /\ \A j \in 1 .. Len(tabs) : ts[j] = tabs[j]
    BY <1>0
  <2>. HIDE DEF ts
  <2>7. \A j \in 1 .. Len(ts) : Fits(ts[j])
    <3>1. \A j \in 1 .. Len(ts) : j \in 1 .. Len(tabs) \/ j = Len(tabs) + 1
      BY <1>0, <2>6
    <3>. QED BY <1>0, <1>3, <2>4, <2>6, <3>1
  <2>8. cur' = Len(tabs) + 1 => cur' \in 1 .. Len(ts)
    BY <1>0, <2>6
  <2>. QED BY <1>0, <1>3, <1>5, <1>6, <2>5, <2>7, <2>8
<1>10. ASSUME NEW s \in Levels, SetSev(s) PROVE OnlyMatching'
  <2>1. TabTypes' /\ Len(tabs') = Len(tabs) /\ \A j \in DOMAIN tabs : SameView(tabs'[j], tabs[j])
    BY <1>10, SetSevTabs
  <2>2. DOMAIN tabs' = DOMAIN tabs
    BY <1>0, <2>1 DEF TabTypes
  <2>. QED BY <1>4, <2>1, <2>2
<1>11. ASSUME NEW i \in DOMAIN tabs, SwitchTab(i) PROVE OnlyMatching'
  BY <1>0, <1>3, <1>6, <1>11 DEF SwitchTab
<1>12. ASSUME NEW i \in DOMAIN tabs, CloseTab(i) PROVE OnlyMatching'
  BY <1>4, <1>12, CloseTabTabs
<1>13. ASSUME Clear PROVE OnlyMatching'
  <2>1. TabTypes' /\ Len(tabs') = Len(tabs) /\ \A j \in DOMAIN tabs : tabs'[j].msgs = <<>>
    BY <1>13, ClearTabs
  <2>2. DOMAIN tabs' = DOMAIN tabs
    BY <1>0, <2>1 DEF TabTypes
  <2>3. \A j \in DOMAIN tabs' : Fits(tabs'[j])
    BY <2>1, <2>2 DEF Fits, ToSet
  <2>. QED BY <1>2, <2>3
<1>14. ASSUME ShortMode PROVE OnlyMatching'
  <2>1. TabTypes' /\ Len(tabs') = Len(tabs) /\ \A j \in DOMAIN tabs : SameView(tabs'[j], tabs[j])
    BY <1>14, ShortModeTabs
  <2>2. DOMAIN tabs' = DOMAIN tabs
    BY <1>0, <2>1 DEF TabTypes
  <2>. QED BY <1>4, <2>1, <2>2
<1>. QED BY <1>7, <1>8, <1>9, <1>10, <1>11, <1>12, <1>13, <1>14 DEF Next

\* A tab has only messages that match its filter, whatever items are selected in one list
\* or in two, for any messages and limits: the walks over lists that are not sorted miss
\* messages, but find no wrong ones.  With three lists an empty result of the first two
\* is taken for none, and the third list alone decides (mvdlg.cc:606-640, 724-785).
THEOREM TabsOnlyMatch ==
  ASSUME ListLeft
  PROVE  Spec => []OnlyMatching
<1>1. Init => OnlyMatching
  <2>. SUFFICES ASSUME Init PROVE OnlyMatching
    OBVIOUS
  <2>. DEFINE z == <<>>
              t == Tab(NoFilter, z, SINFO, z, 0)
  <2>1. t.msgs = <<>> /\ tabs = <<t>>
    BY TabFields DEF Init, NewTab
  <2>. HIDE DEF t
  <2>2. \A j \in DOMAIN tabs : tabs[j].msgs = <<>>
    BY <2>1
  <2>. QED BY <2>2 DEF OnlyMatching, ToSet
<1>2. ViewInv /\ OnlyMatching /\ [Next]_vars => OnlyMatching'
  BY MatchInductive
<1>. QED BY InitView, ViewInductive, <1>1, <1>2, PTL DEF Spec
=============================================================================
