CONSTANTS
    r1 = r1
    m1 = m1
    a1 = a1
    NoRun = NoRun
    NoMsg = NoMsg
    Routes = {r1}
    Msgs = {m1}
    RunIds = {a1}
    MaxChunks = 1
    MaxQueuedPerRoute = 1
    MaxPendingGlobal = 2
    MaxAdmissionAttempts = 0
    MaxDeliveryAttempts = 1
    RemoteIds = {1, 2, 3, 4, 5, 6}
    Nonces = {1, 2, 3}
    MaxFaults = 1
SPECIFICATION LaneSpec
SYMMETRY Symmetry
INVARIANTS
    FailedMeansNotPosted
CHECK_DEADLOCK FALSE
