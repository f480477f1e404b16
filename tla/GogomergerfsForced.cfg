SPECIFICATION FairSpec
CONSTANTS
  Faults = TRUE
  Resends = TRUE
CHECK_DEADLOCK FALSE
INVARIANTS TypeOK LeftBehindOnlyIfForced
PROPERTY SignalEndsProcess
