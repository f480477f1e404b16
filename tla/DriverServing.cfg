SPECIFICATION FairSpec
CONSTANTS
  Nil = Nil
  MaxCrashes = 1
  Configs <- AllConfigs
  Messages <- AllMessages
INVARIANTS TypeOK NeverPanics SpecsAsAssumed CreatedMeansUsable
PROPERTIES SameRequestSameSpec ServesAgain
