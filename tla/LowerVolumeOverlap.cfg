SPECIFICATION Spec
CONSTANTS
  Calls = {c1, c2}
  Volumes <- OneVolume
  Specs <- TwoNamespaces
  NoSplit = NoSplit
  NoClaim = NoClaim
  MaxFaults = 2
  MaxLag = 2
  SerialCalls = FALSE
  Reused <- None
SYMMETRY CallSymmetry
INVARIANTS TypeOK AckedVolumeBacked
