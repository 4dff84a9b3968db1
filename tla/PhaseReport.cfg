SPECIFICATION Spec

CONSTANTS
    j1 = j1
    NoJob = NoJob
    MaxIterations = 10
    Floor <- MCFloor
    Job = {j1}
    Verdicts = {"success", "failed"}
    Surveys = {TRUE, FALSE}
    Faults = FALSE
    Interrupts = FALSE
    Aborts = FALSE

INVARIANTS
    ReportReached

CHECK_DEADLOCK FALSE
