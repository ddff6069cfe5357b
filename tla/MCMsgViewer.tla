---------------------------- MODULE MCMsgViewer ----------------------------
(* Model-checking instances of MsgViewer.                                  *)
EXTENDS MsgViewer

\* Four messages from two hosts and two applications; the addresses are the
\* numbers, so the order of arrival may or may not be that of the addresses, and
\* that of the stamps.  The last is from two seconds after the third.
FourMsgs == 1 .. 4
FourAttr == [d \in Dims |-> CASE d = "host" -> <<"h1", "h2", "h1", "h1">>
                              [] d = "app"  -> <<"a1", "a1", "a2", "a2">>
                              [] d = "cat"  -> <<"c1", "c1", "c1", "c1">>]
FourSev  == <<1, 3, 3, 1>>
FourAddr == <<1, 2, 3, 4>>
FourTime == <<1, 2, 2, 4>>

\* One entry of the suppression list, one throttle.
OneSuppressed == <<[dim |-> "host", names |-> {"h2"}]>>
OneThrottled  == <<[dim |-> "app", names |-> {"a2"}, limit |-> 1, span |-> 1]>>

Select(hosts, apps, cats) ==
  [d \in Dims |-> CASE d = "host" -> hosts [] d = "app" -> apps [] d = "cat" -> cats]

\* One item of one list.
OneItem == {Select({h}, {}, {}) : h \in {"h1", "h2"}} \cup {Select({}, {a}, {}) : a \in {"a1", "a2"}}
=============================================================================
