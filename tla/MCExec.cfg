SPECIFICATION Spec
CONSTANTS
    p1 = p1
    p2 = p2
    v1 = v1
    v2 = v2
    Paths = {p1, p2}
    Updates = {p1, p2}
    Leases = {}
    Renewable = {}
    Values = {v1, v2}
    Unread = Unread
    KubeSignals = {"TERM"}
    ChildCodes = {0}
    DaemonMode = FALSE
    WatchData = TRUE
    RevokeToken = TRUE
    CanRelogin = TRUE
    SignalMayFail = FALSE
    MaxChanges = 2
    MaxFaults = 2
    MaxKube = 2
SYMMETRY Symmetry
INVARIANTS StartsComplete
