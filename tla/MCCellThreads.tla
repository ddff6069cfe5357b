---------------------------- MODULE MCCellThreads ----------------------------
(* Model-checking instances of CellThreads.                                *)
EXTENDS CellThreads

P(n, least, pers) ==
  [occur |-> n, at_least |-> least, timespan |-> 1, persistent |-> pers]

MCConfigs ==
  {P(n, TRUE, pers)  : n \in {1, 2}, pers \in BOOLEAN} \cup
  {P(0, FALSE, FALSE), P(1, FALSE, TRUE)}
=============================================================================
