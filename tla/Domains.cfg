SPECIFICATION Spec
CONSTANTS
  NameOrder <- MCNameOrder
  Conds <- MCConds  CondParams <- MCCondParams
  Rules <- MCOrder  RuleParams <- MCRules
  Messages <- MCMessages  Resets = {"r1", "r3_1", "r4"}  EHS = TRUE  MaxFeeds = 4
  GroupSize <- MCGroups
CHECK_DEADLOCK FALSE
INVARIANTS DomainInv RulesInv AlarmMeansNames NeverThrows
