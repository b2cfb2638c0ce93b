------------------------------ MODULE TaskFifo ------------------------------
(***************************************************************************)
(* What ConcurrentTaskQueue promises its clients, without deque, mutex or  *)
(* condition variable: tasks arrive one at a time, a delivery hands over   *)
(* the longest-waiting task, and tasks may be withdrawn from anywhere      *)
(* (clear, remove_task_from_queue) without disturbing that order.  "pushes *)
(* a instance of task onto the queue FIFO thread safe manner"              *)
(* (include/dag_scheduler/concurrent_task_queue.h:53-54).                  *)
(***************************************************************************)
EXTENDS Naturals

CONSTANT Tasks

VARIABLES
    stage,     \* "new", "pending", "delivered" or "withdrawn"
    ticket     \* arrival number of each task, 0 before it arrives

Pending == {t \in Tasks : stage[t] = "pending"}

FifoInit ==
    /\ stage = [t \in Tasks |-> "new"]
    /\ ticket = [t \in Tasks |-> 0]

Arrive(t) ==
    /\ stage[t] = "new"
    /\ stage' = [stage EXCEPT ![t] = "pending"]
    /\ \E n \in {1 + ticket[u] : u \in Tasks} :
        /\ \A u \in Tasks : ticket[u] < n
        /\ ticket' = [ticket EXCEPT ![t] = n]

Deliver(t) ==
    /\ t \in Pending
    /\ \A u \in Pending : ticket[t] <= ticket[u]
    /\ stage' = [stage EXCEPT ![t] = "delivered"]
    /\ UNCHANGED ticket

Withdraw(S) ==
    /\ S \subseteq Pending
    /\ stage' = [t \in Tasks |-> IF t \in S THEN "withdrawn" ELSE stage[t]]
    /\ UNCHANGED ticket

FifoNext ==
    \/ \E t \in Tasks : Arrive(t) \/ Deliver(t)
    \/ \E S \in SUBSET Tasks : Withdraw(S)

FifoSpec == FifoInit /\ [][FifoNext]_<<stage, ticket>>
=============================================================================
