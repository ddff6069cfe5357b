----------------------------- MODULE MCLogReader -----------------------------
(* Model-checking instance of LogReader.                                  *)
EXTENDS LogReader

From(app) == [p \in Parts |-> IF p = "application" THEN app ELSE "x"]
M(id, sev, n, app) ==
  [id |-> id, sev |-> sev, lines |-> n, marks |-> {}, origin |-> From(app)]
Quoting == [M(5, "SERROR", 1, "c") EXCEPT !.marks = {1}]

\* Two programs' messages, in a file each: the one has a message from before, the other
\* a message that quotes a mark.
MCMsgs == {M(1, "SINFO", 1, "a"), M(2, "SDEBUG", 2, "a"), M(3, "SERROR", 1, "a"),
           Quoting}
NameOf(app) == [p \in {"application"} |-> app]
MCOld == [f \in {NameOf("a")} |-> <<M(3, "SERROR", 1, "a")>>]
MCFileOf == [r \in {"ra", "rb", "rc"} |->
               NameOf(IF r = "rc" THEN "c" ELSE "a")]

\* The latter reaches its file line by line.
MCSlow == {Quoting}
==============================================================================
