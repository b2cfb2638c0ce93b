-------------------------- MODULE MCTaskScheduler --------------------------
\* Tasks of one stage; each is its own uuid, so that tasks are interchangeable
\* together with their uuids.
EXTENDS TaskScheduler, TLC

MCUuidOf == [t \in Tasks |-> t]
MCStageCount == [t \in Tasks |-> 1]
MCSymmetry == Permutations(Tasks)
=============================================================================
