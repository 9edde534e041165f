SPECIFICATION FairSpec
CONSTANTS
    p1 = p1
    p2 = p2
    v1 = v1
    v2 = v2
    Paths = {p1}
    Updates = {}
    Leases = {}
    Renewable = {}
    Values = {v1, v2}
    Unread = Unread
    KubeSignals = {"TERM", "HUP"}
    ChildCodes = {0}
    DaemonMode = FALSE
    WatchData = TRUE
    RevokeToken = FALSE
    CanRelogin = TRUE
    SignalMayFail = FALSE
    MaxChanges = 0
    MaxFaults = 0
    MaxKube = 2
PROPERTIES SignalsForwarded
