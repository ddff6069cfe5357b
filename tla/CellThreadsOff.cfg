SPECIFICATION FairThreads
CONSTANTS
  Places = {x1}
  Settings <- MCConfigs
  ResettingRules = 0
  MaxHits = 3
  LastStamp = 3
  LastTime = 6
PROPERTY ShutsItselfOff
