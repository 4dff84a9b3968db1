SPECIFICATION Spec

CONSTANTS
    j1 = j1
    NoJob = NoJob
    MaxIterations = 6
    Floor <- MCSmallFloor
    Job = {}
    Verdicts = {"success", "failed"}
    Surveys = {TRUE}
    Faults = FALSE
    Interrupts = FALSE
    Aborts = FALSE

PROPERTIES
    AcceptedClaimRouted

CHECK_DEADLOCK FALSE
