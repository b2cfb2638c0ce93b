CONSTANTS
    t1 = t1  t2 = t2  t3 = t3
    u1 = u1  u2 = u2
    Tasks = {t1, t2, t3}
    UUIDs = {u1, u2}
    UuidOf <- MCUuidOf
    Consumers = {c1, c2}
    NoTask = NoTask
    MaxLength = 3
SPECIFICATION HFairSpec
INVARIANTS NoLostWakeup UniqueOwner
PROPERTIES ImplementsFifo TimedWaitReturns WaiterServed
CHECK_DEADLOCK FALSE
