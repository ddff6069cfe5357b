SPECIFICATION Spec
CONSTANTS
  Msgs <- FourMsgs
  Attr <- FourAttr
  Sev <- FourSev
  Time <- FourTime
  Suppressed <- OneSuppressed
  Throttled <- OneThrottled
  Addr <- FourAddr
  Levels = {1, 3}
  Selections <- OneItem
  MaxMsgs = 2
  MaxDeleted = 1
  MaxTabs = 2
INVARIANTS PoolInv DisplayInv TabsInv
PROPERTIES NewFiltersFromPool ThrottleReopens
