CONSTANTS
    t1 = t1  t2 = t2
    Tasks = {t1, t2}
    NoTask = NoTask
    StageCount <- MCStageCount
    Slots = {s1}
    Callers = {owner, other}
    Owner = owner
    InterruptArgs = {TRUE, FALSE}
    owner = owner
SPECIFICATION FairSpec
INVARIANTS CompletedOnce CallbackSeesIdleSlot
PROPERTIES KillPreventsSuccess StartedTaskReported ShutdownReturns StartReturnsOrMissed
CHECK_DEADLOCK FALSE
