SPECIFICATION FairSpec
CONSTANTS
  Calls = {c1}
  Volumes <- TwoVolumes
  Specs <- OneSpec
  NoSplit = NoSplit
  NoClaim = NoClaim
  MaxFaults = 1
  MaxLag = 2
  SerialCalls = TRUE
  Reused <- DataOnly
INVARIANTS ClaimsHaveSplit DeletedMeansGone
PROPERTIES RetiredVolumeReclaimed ImplementsLifecycle
