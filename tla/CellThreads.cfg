SPECIFICATION FairThreads
CONSTANTS
  Places = {x1, x2}
  Settings <- MCConfigs
  ResettingRules = 1
  MaxHits = 3
  LastStamp = 2
  LastTime = 5
INVARIANTS ThreadsInv
PROPERTIES PassEnds GuiComesBack
