CONSTANTS
    Tasks = {t1, t2}
    UUIDs = {t1, t2}
    UuidOf <- MCUuidOf
    NoTask = NoTask
    StageCount <- MCStageCount
    MaxLength = 2
    PoolSize = 2
    Runner = runner
    Clients = {c1}
    MaxSessions = 2
SYMMETRY MCSymmetry
SPECIFICATION Spec
INVARIANTS TaskHasOneOwner OneDispatchPerSession FirstSessionNeverTerminates OnlyDispatchedReport CleanAfterDestruction
CHECK_DEADLOCK FALSE
