--------------------- MODULE MCConcurrentTaskQueueFifo ---------------------
EXTENDS ConcurrentTaskQueueFifo

CONSTANTS t1, t2, t3, u1, u2

MCUuidOf == [t \in Tasks |-> IF t = t3 THEN u2 ELSE u1]
=============================================================================
