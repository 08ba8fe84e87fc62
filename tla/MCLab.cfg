SPECIFICATION Spec
CONSTANTS
    W = 16
    WrapperCycles = 2
    StubCycles = 5
    JitterFloor = 1
    FallbackLo = 3
    FallbackHi = 7
    Tolerance = 25
    Skipped = Skipped
    Cycles <- MCCycles
    Emitted <- MCEmitted
    Jitter = 1
    Speeds = {1, 4}
    Baselines <- MCBaselines
    Sizes <- MCSizes
    Classes <- MCClasses
    Commands <- MCCommands
    Lasting <- MCLasting
    Libraries <- MCLibraries
    Neighbours = {1, 4}
    MaxSessions = 3
INVARIANTS
    RowsExact
    Unrefused
    CtVerdictExact
    BaselineGate
    ColumnsKept
    LeavesNoTurbo
    FuzzExact
    AuditHonest
CHECK_DEADLOCK FALSE
