SPECIFICATION FairSpec

CONSTANTS
    b1 = b1
    b2 = b2
    w1 = w1
    w2 = w2
    i1 = i1
    i2 = i2
    i3 = i3
    NoItem = NoItem
    Batch = {b1, b2}
    Item = {i1, i2, i3}
    Workspace = {w1, w2}
    BatchOf <- MCBatchOf
    RowOf <- MCLateRowOf
    WorkspaceOf <- MCWorkspaceOf
    Concurrency <- MCNarrow
    GlobalCap = 2
    Seconds = {0}
    Crashes = TRUE
    Faults = FALSE

INVARIANTS
    CapacityRespected
    NoLeakedCapacity

PROPERTIES
    QueueResumes

CHECK_DEADLOCK FALSE
