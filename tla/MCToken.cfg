SPECIFICATION FairSpec
CHECK_DEADLOCK FALSE
CONSTANTS
    Configs <- EveryConfig
    MaxFaults = 3
INVARIANTS TypeOK RenewalsOwned
PROPERTIES Recovers KeepsToken
