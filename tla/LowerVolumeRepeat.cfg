SPECIFICATION Spec
CONSTANTS
  Calls = {c1}
  Volumes <- OneVolume
  Specs <- OneSpec
  NoSplit = NoSplit
  NoClaim = NoClaim
  MaxFaults = 0
  MaxLag = 2
  SerialCalls = TRUE
  Reused <- None
INVARIANT RepeatedCreateSucceeds
