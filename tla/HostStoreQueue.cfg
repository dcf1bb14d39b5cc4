CONSTANTS
    r1 = r1
    r2 = r2
    m1 = m1
    m2 = m2
    m3 = m3
    a1 = a1
    a2 = a2
    NoRun = NoRun
    NoMsg = NoMsg
    Routes = {r1, r2}
    Msgs = {m1, m2, m3}
    RunIds = {a1, a2}
    MaxChunks = 1
    MaxQueuedPerRoute = 1
    MaxPendingGlobal = 2
    MaxAdmissionAttempts = 0
    MaxDeliveryAttempts = 1
    RemoteIds = {1}
    Nonces = {1}
SPECIFICATION Spec
SYMMETRY Symmetry
INVARIANTS
    TypeOK
    SeqTotalOrder
    WorkInOrder
    RotationStrandsNothing
    RowsBelong
    StopLeavesNothing
    CapacityHeld
    PayloadKept
PROPERTIES
    KeepsConversation
CHECK_DEADLOCK FALSE
