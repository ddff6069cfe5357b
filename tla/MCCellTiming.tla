---------------------------- MODULE MCCellTiming ----------------------------
(* Model-checking instances of CellTiming.                                 *)
EXTENDS CellTiming

P(n, least, span, pers) ==
  [occur |-> n, at_least |-> least, timespan |-> span, persistent |-> pers]

\* Every kind of condition, with trigger counts 1 and 2.
MCConfigs ==
  {P(n, TRUE, 1, pers)  : n \in {1, 2}, pers \in BOOLEAN} \cup
  {P(n, FALSE, 1, pers) : n \in {0, 1}, pers \in BOOLEAN}
=============================================================================
