CONSTANTS
    t1 = t1  t2 = t2  owner = owner
    Tasks = {t1}
    NoTask = NoTask
    StageCount <- MCStageCount
    Slots = {s1}
    Callers = {owner}
    Owner = owner
    InterruptArgs = {TRUE}
SPECIFICATION FairSpec
PROPERTY StartReturns
CHECK_DEADLOCK FALSE
