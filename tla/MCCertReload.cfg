SPECIFICATION FairSpec
CHECK_DEADLOCK FALSE
CONSTANTS
    Keys = {"a", "b", "c"}
    KeyOf <- RenewedKeys
    MaxRotations = 4
    MaxRestarts = 2
INVARIANTS TypeOK PairBelongs QuietMeansCurrent
PROPERTIES KeepsContract RotationServed
