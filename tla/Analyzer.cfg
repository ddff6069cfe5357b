SPECIFICATION Spec
CONSTANTS
  Apps = {"a1"}
  Messages <- MCMessages
  AlarmOnWarning <- MCOnWarning  AlarmOnError <- MCOnError
  MAX_QUEUE = 0  MaxMsgs = 2
  Conds = {"c1", "c2"}  CondsOf <- MCCondsOf
  Acts = {"r2"}  EHS = TRUE  MaxAlarms = 1  MaxQueued = 1
CHECK_DEADLOCK FALSE
INVARIANTS NodesInv MenuNodeExists AlarmsAreShown TablesInv
PROPERTIES AlarmIsSeen
