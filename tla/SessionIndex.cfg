SPECIFICATION FairSpec

CONSTANTS
    s1 = s1
    s2 = s2
    Session = {s1, s2}
    MaxFaults = 1
    Faulty = {"read", "write", "start", "docker", "stop", "crash"}

INVARIANTS
    TypeOK
    IndexTold
    EndsTold

PROPERTIES
    TasksEnd
    EndsShown

CHECK_DEADLOCK FALSE
