SPECIFICATION FairSpec
CONSTANTS
    p1 = p1
    p2 = p2
    v1 = v1
    v2 = v2
    Paths = {p1, p2}
    Updates = {}
    Leases = {p1, p2}
    Renewable = {p1}
    Values = {v1, v2}
    Unread = Unread
    KubeSignals = {"TERM"}
    ChildCodes = {0}
    DaemonMode = TRUE
    WatchData = FALSE
    RevokeToken = TRUE
    CanRelogin = TRUE
    SignalMayFail = FALSE
    MaxChanges = 0
    MaxFaults = 1
    MaxKube = 2
INVARIANTS KillFollowsTerm NoRequestLost
PROPERTIES KeepsToken LeaseEndsContainer ExitsAfterChild
