SPECIFICATION FairSpec

CONSTANTS
    j1 = j1
    NoJob = NoJob
    MaxIterations = 5
    Floor <- MCSmallFloor
    Job = {j1}
    Verdicts = {"success", "failed"}
    Surveys = {TRUE}
    Faults = TRUE
    Interrupts = TRUE
    Aborts = TRUE

INVARIANTS
    TypeOK
    CloseReasonTold
    ReportAfterEvidence
    EndsHonestly

PROPERTIES
    SealedRunIsFrozen
    RunEnds

CHECK_DEADLOCK FALSE
