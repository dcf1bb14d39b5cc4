CONSTANTS
    r1 = r1
    m1 = m1
    m2 = m2
    a1 = a1
    a2 = a2
    NoRun = NoRun
    NoMsg = NoMsg
    Routes = {r1}
    Msgs = {m1, m2}
    RunIds = {a1, a2}
    MaxChunks = 1
    MaxQueuedPerRoute = 1
    MaxPendingGlobal = 2
    MaxAdmissionAttempts = 0
    MaxDeliveryAttempts = 2
    RemoteIds = {1, 2, 3, 4, 5, 6}
    Nonces = {1, 2, 3}
    MaxFaults = 2
SPECIFICATION LaneSpec
SYMMETRY Symmetry
INVARIANTS
    NoBlindCreate
    AckedIsShown
PROPERTIES
    ImplementsHostStore
CHECK_DEADLOCK FALSE
