SPECIFICATION Spec
CONSTANTS
  Conds = {"c1"}
  CondParams <- RepeatConds
  Rules = {"r1"}
  RuleParams <- RepeatRules
  RuleOrder <- RepeatOrder
  Sources = {s1, s2}
  EHS = TRUE
  MaxSteps = 6
  MaxTime = 4
PROPERTY HoldoffRespected
