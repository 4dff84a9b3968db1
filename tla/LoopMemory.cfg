SPECIFICATION Spec

CONSTANTS
    compile = compile
    poll = poll
    repair = repair
    artifacts = artifacts
    tests = tests
    NoKey = NoKey
    NoToken = NoToken
    Action = {compile, poll, repair}
    Repairs = {repair}
    Polls = {poll}
    Scope = {artifacts, tests}
    Scopes <- MCScopes
    Records <- MCRecords
    start = start
    moved = moved
    Cursor = {start, moved}
    MaxEvents = 6
    MaxEpoch = 1

INVARIANTS
    TypeOK
    ArmedByLast
    LadderKept
    BlockersStand
    BlockersBooked

SYMMETRY Symmetry

CONSTRAINT WorthASixth

CHECK_DEADLOCK FALSE
