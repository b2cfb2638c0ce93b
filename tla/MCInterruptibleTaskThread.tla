--------------------- MODULE MCInterruptibleTaskThread ---------------------
\* One slot, an owner and a second caller, a task of two stages and one
\* without stages.
EXTENDS InterruptibleTaskThread

CONSTANTS t1, t2, owner

MCStageCount == [t \in Tasks |-> IF t = t1 THEN 2 ELSE 0]
=============================================================================
