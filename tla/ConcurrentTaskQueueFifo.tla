----------------------- MODULE ConcurrentTaskQueueFifo -----------------------
(***************************************************************************)
(* ConcurrentTaskQueue implements TaskFifo.  The queue is extended with    *)
(* two history variables: the order in which tasks were pushed and the     *)
(* tasks that a pop (not a removal) handed out.                            *)
(***************************************************************************)
EXTENDS ConcurrentTaskQueue

VARIABLES
    arrived,      \* tasks in the order of their push
    popped        \* tasks returned by try_pop, wait_and_pop, wait_for_and_pop

histVars == <<arrived, popped>>

HInit == Init /\ arrived = <<>> /\ popped = {}

HPush(t) ==
    /\ push(t)
    /\ arrived' = IF t = NoTask THEN arrived ELSE Append(arrived, t)
    /\ UNCHANGED popped

Pop(c) == try_pop(c) \/ wait_and_pop(c) \/ wait_for_and_pop(c) \/ Recheck(c)

HPop(c) ==
    /\ Pop(c)
    /\ popped' = IF queue_' # queue_ THEN popped \cup ({held'[c]} \ {NoTask})
                                     ELSE popped
    /\ UNCHANGED arrived

HOther(c) ==
    /\ \/ Expire(c) \/ SpuriousWakeup(c) \/ Release(c)
       \/ \E u \in UUIDs : remove_task_from_queue(u, c)
    /\ UNCHANGED histVars

HNext ==
    \/ \E t \in Pointers : HPush(t)
    \/ clear /\ UNCHANGED histVars
    \/ \E c \in Consumers : HPop(c) \/ HOther(c)

HSpec == HInit /\ [][HNext]_<<vars, histVars>>

HFairSpec == HSpec /\ Fairness

-----------------------------------------------------------------------------
StageOf(t) ==
    IF t \in fresh THEN "new"
    ELSE IF t \in Entries(queue_) THEN "pending"
    ELSE IF t \in popped THEN "delivered"
    ELSE "withdrawn"

TicketOf(t) ==
    IF t \in Entries(arrived)
    THEN CHOOSE i \in DOMAIN arrived : arrived[i] = t
    ELSE 0

Fifo == INSTANCE TaskFifo WITH
    stage <- [t \in Tasks |-> StageOf(t)],
    ticket <- [t \in Tasks |-> TicketOf(t)]

\* Under every interleaving of pushes, waiting pops, timeouts, clear and
\* remove_task_from_queue the deque behaves as the FIFO it is documented to be.
ImplementsFifo == Fifo!FifoSpec
=============================================================================
