SPECIFICATION FairSpec
CONSTANTS
    p1 = p1
    p2 = p2
    v1 = v1
    v2 = v2
    Paths = {p1, p2}
    Updates = {}
    Leases = {}
    Renewable = {}
    Values = {v1, v2}
    Unread = Unread
    KubeSignals = {"TERM"}
    ChildCodes = {0, 3}
    DaemonMode = FALSE
    WatchData = TRUE
    RevokeToken = FALSE
    CanRelogin = TRUE
    SignalMayFail = FALSE
    MaxChanges = 2
    MaxFaults = 2
    MaxKube = 2
INVARIANTS TypeOK RestartJustified RestartReported NoRequestLost
PROPERTIES KeepsContract NeverStaleForever SignalsForwarded
