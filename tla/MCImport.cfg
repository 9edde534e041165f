SPECIFICATION FairSpec
CONSTANTS
  Imports = {"a"}
  Specs <- TwoSpecs
  Workers = {w1, w2}
  None = None
  MaxEdits = 3
  MaxMeddling = 1
  MaxFaults = 1
  MaxCrashes = 1
CHECK_DEADLOCK FALSE
INVARIANTS TypeOK IdleMeansSettled
PROPERTIES NeverBackwards Converges KeepsContract
