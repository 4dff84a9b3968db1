SPECIFICATION FairSpec

CONSTANTS
    c1 = c1
    c2 = c2
    p1 = p1
    p2 = p2
    NoCommand = NoCommand
    Command = {c1, c2}
    Path = {p1, p2}
    Scope <- MCScope
    Vouchable <- MCVouchable
    MaxWrites <- MCWrites
    MaxFailures = 1
    Failing = {"dispatch", "probe", "vanished", "exit", "ledger", "reread", "restart", "receipt", "obligation"}

INVARIANTS
    TypeOK
    WrittenOnce
    SettledByOwnReceipt
    NothingHidden
    ExclusionJustified

PROPERTIES
    JobsAnnounced
    PoolSpec

CHECK_DEADLOCK FALSE
