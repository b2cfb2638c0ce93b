CONSTANTS
    Tasks = {t1}
    UUIDs = {t1}
    UuidOf <- MCUuidOf
    NoTask = NoTask
    StageCount <- MCStageCount
    MaxLength = 1
    PoolSize = 2
    Runner = runner
    Clients = {c1}
    MaxSessions = 2
SPECIFICATION FairSpec
PROPERTIES ShutdownEndsSession DestructorReturns
CHECK_DEADLOCK FALSE
