SPECIFICATION FairSpec
CONSTANTS
  Conds = {c1}
  Slots = {x1, x2}
  Configs <- MCConfigs
  Skew = 1
  MaxStamp = 3
  MaxTime = 6
INVARIANTS TypeOK OffEventPending OnEventPending OnHasMessages
PROPERTIES PersistentStaysOn StatusEnds
