CONSTANTS
    r1 = r1
    m1 = m1
    m2 = m2
    a1 = a1
    a2 = a2
    NoRun = NoRun
    NoMsg = NoMsg
    Routes = {r1}
    Msgs = {m1, m2}
    RunIds = {a1, a2}
    MaxChunks = 1
    MaxQueuedPerRoute = 1
    MaxPendingGlobal = 2
    MaxAdmissionAttempts = 1
    MaxDeliveryAttempts = 1
    RemoteIds = {1}
    Nonces = {1}
    MaxRunning = 1
    MaxWorkers = 1
    MaxFaults = 1
SPECIFICATION FairRunnerSpec
PROPERTIES
    EventsSettle
CHECK_DEADLOCK FALSE
