SPECIFICATION Spec
CONSTANTS
  Conds = {"c1", "c2", "c3"}
  CondParams <- MCConds
  Rules = {"r1", "r2", "r3"}
  RuleParams <- MCRules
  RuleOrder <- MCOrder
  Sources = {s1, s2}
  EHS = TRUE
  MaxSteps = 3
  MaxTime = 1
SYMMETRY SourceSymmetry
INVARIANTS EverySourceAlarms SameCauseOnce AlarmInv CountIsDistinct
