SPECIFICATION SerialSpec

CONSTANTS
    b1 = b1
    b2 = b2
    w1 = w1
    w2 = w2
    i1 = i1
    i2 = i2
    i3 = i3
    NoItem = NoItem
    Batch = {b1, b2}
    Item = {i1, i2, i3}
    Workspace = {w1, w2}
    BatchOf <- MCBatchOf
    RowOf <- MCRowOf
    WorkspaceOf <- MCWorkspaceOf
    Concurrency <- MCWide
    GlobalCap = 1
    Seconds = {0, 1}
    Crashes = FALSE
    Faults = FALSE

INVARIANTS
    ProcessCap
    NoDuplicateLaunch
    NoFalseCompleted

PROPERTIES
    QueueDrains

CHECK_DEADLOCK FALSE
