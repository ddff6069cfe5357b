SPECIFICATION Spec
CONSTANTS
  Msgs <- MCMsgs  Uses = {"application"}  Appends = TRUE  ByLine <- MCSlow
  Wants = {"EPILOGUE_SEPARATE", "TIMESTAMP", "TIME_SEPARATE", "MODULE", "TEXT"}
  Old <- MCOld  HeadFits = TRUE
  Configured = {"ra", "rb", "rc"}  Loadable = {"ra", "rc"}  FileOf <- MCFileOf
CHECK_DEADLOCK FALSE
INVARIANTS ReaderInv
PROPERTIES ReadsEachOnce CatchesUp
