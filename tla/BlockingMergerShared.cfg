SPECIFICATION FairSpec
CONSTANTS
  Runners = {r1, r2}
  Stoppers = {s1, s2}
  Cleaners = {k1}
  Nobody = Nobody
  Cancels = TRUE
  MaxMounts = 2
CHECK_DEADLOCK FALSE
INVARIANTS TypeOK OneRun MergedWhileRunning
PROPERTIES NoLeftoverRequest LoneStopReturns
