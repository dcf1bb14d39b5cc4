CONSTANTS
    r1 = r1
    m1 = m1
    m2 = m2
    m3 = m3
    a1 = a1
    a2 = a2
    NoRun = NoRun
    NoMsg = NoMsg
    Routes = {r1}
    Msgs = {m1, m2, m3}
    RunIds = {a1, a2}
    MaxChunks = 1
    MaxQueuedPerRoute = 1
    MaxPendingGlobal = 2
    MaxAdmissionAttempts = 1
    MaxDeliveryAttempts = 1
    RemoteIds = {1}
    Nonces = {1}
    MaxRunning = 1
    MaxWorkers = 1
    MaxFaults = 0
SPECIFICATION RunnerSpec
SYMMETRY Symmetry
INVARIANTS
    StopNeverRelabels
CHECK_DEADLOCK FALSE
