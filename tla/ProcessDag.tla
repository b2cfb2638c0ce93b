----------------------------- MODULE ProcessDag -----------------------------
(***************************************************************************)
(* process_dag of dag_algorithms.cxx, composed with the queue of the       *)
(* TaskScheduler it hands the tasks to: calls from several threads for one *)
(* graph, the scheduler's thread that takes tasks from the queue, and      *)
(* kill_task.                                                              *)
(*                                                                         *)
(* The graph is any that add_vertex and DAGVertex::connect, which does not *)
(* look for cycles, can build.  process_dag works on clones and leaves it  *)
(* alone.  A task object is the clone of the task of a vertex made in one  *)
(* call; clones of one vertex share its uuid.                              *)
(***************************************************************************)
EXTENDS DagAlgorithms

CONSTANTS
    Calls,        \* calls of process_dag, each in its own thread
    HasTask,      \* vertices that carry a task
    Runner,       \* the thread in TaskScheduler::startup
    Killer,       \* a thread that calls kill_task
    NoTask        \* the task of a vertex that has none

ASSUME HasTaskAssumption == HasTask \subseteq Vertices
ASSUME ThreadAssumption == Runner # Killer

Tasks == [vertex : HasTask, call : Calls]

ASSUME NoTaskAssumption == NoTask \notin Tasks

VARIABLES
    given,        \* the graph g that the calls are given
    at,           \* where each call is
    g_clone,      \* what is left of its clone
    out,          \* its output: the batches
    todo,         \* vertices of the last batch not yet queued
    taken,        \* history: task objects the runner has taken
    queue_, call, timed, expired, held, fresh, destroyed,   \* of the queue
    process       \* what became of the process

callVars == <<g_clone, out, todo>>
queueVars == <<queue_, call, timed, expired, held, fresh, destroyed, process>>
processVars == <<given, at, callVars, taken, queueVars>>

Queue == INSTANCE ConcurrentTaskQueue WITH
    UUIDs <- HasTask, UuidOf <- [t \in Tasks |-> t.vertex], fate <- process,
    Consumers <- {Runner, Killer},
    MaxLength <- Cardinality(Vertices) * Cardinality(Calls)

Running == process = "alive"

ProcessTypeOK ==
    /\ at \in [Calls -> {"idle", "looping", "queueing", "true", "false"}]
    /\ \A c \in Calls : Elements(todo[c]) \subseteq VerticesOf(given)
    /\ taken \subseteq Tasks
    /\ Queue!TypeOK

\* The vectors edges_ that connect can leave.
EdgeLists ==
    {s \in UNION {[1..n -> Vertices] : n \in 0..Cardinality(Vertices)} :
        \A i, j \in DOMAIN s : s[i] = s[j] => i = j}

\* The graphs on all vertices, in one order of graph_.
Graphs ==
    LET order == CHOOSE s \in [1..Cardinality(Vertices) -> Vertices] : Elements(s) = Vertices
    IN  {Clone([graph_ |-> order, edges_ |-> e, incomming |-> [v \in Vertices |-> 0]]) :
            e \in [Vertices -> EdgeLists]}

ProcessInit ==
    /\ given \in Graphs
    /\ at = [c \in Calls |-> "idle"]
    /\ g_clone = [c \in Calls |-> EmptyGraph]
    /\ out = [c \in Calls |-> <<>>]
    /\ todo = [c \in Calls |-> <<>>]
    /\ taken = {}
    /\ Queue!Init

-----------------------------------------------------------------------------
\* process_dag

\* The graph is cloned twice, and one clone sorted.  Of a cyclic graph nothing
\* is queued.
Check(c) ==
    /\ Running /\ at[c] = "idle"
    /\ IF dag_topological_sort(Clone(given)).ret
       THEN at' = [at EXCEPT ![c] = "false"] /\ UNCHANGED g_clone
       ELSE /\ at' = [at EXCEPT ![c] = "looping"]
            /\ g_clone' = [g_clone EXCEPT ![c] = Clone(given)]
    /\ UNCHANGED <<given, out, todo, taken, queueVars>>

\* Mutant of TakeBatch: the removal is compiled away with the assertion
\* around it.
TakeBatchNotRemoved(c) ==
    LET batch == dag_vertices_with_no_incomming_edges(g_clone[c])
    IN  /\ Running /\ at[c] = "looping"
        /\ IF batch = <<>>
           THEN at' = [at EXCEPT ![c] = "true"] /\ UNCHANGED callVars
           ELSE /\ at' = [at EXCEPT ![c] = "queueing"]
                /\ out' = [out EXCEPT ![c] = Append(@, batch)]
                /\ todo' = [todo EXCEPT ![c] = batch]
                /\ UNCHANGED g_clone
        /\ UNCHANGED <<given, taken, queueVars>>

\* Mutant of TakeBatch: everything left is one batch.
TakeBatchAll(c) ==
    LET batch == g_clone[c].graph_
    IN  /\ Running /\ at[c] = "looping"
        /\ IF batch = <<>>
           THEN at' = [at EXCEPT ![c] = "true"] /\ UNCHANGED callVars
           ELSE /\ at' = [at EXCEPT ![c] = "queueing"]
                /\ g_clone' = [g_clone EXCEPT ![c] = EmptyGraph]
                /\ out' = [out EXCEPT ![c] = Append(@, batch)]
                /\ todo' = [todo EXCEPT ![c] = batch]
        /\ UNCHANGED <<given, taken, queueVars>>

\* The test of the loop and the first part of its body: the vertices without
\* incoming edges become a batch and are removed from the clone.
TakeBatch(c) ==
    LET batch == dag_vertices_with_no_incomming_edges(g_clone[c])
    IN  /\ Running /\ at[c] = "looping"
        /\ IF batch = <<>>
           THEN at' = [at EXCEPT ![c] = "true"] /\ UNCHANGED callVars
           ELSE /\ at' = [at EXCEPT ![c] = "queueing"]
                /\ g_clone' = [g_clone EXCEPT ![c] = RemoveVertices(@, Elements(batch))]
                /\ out' = [out EXCEPT ![c] = Append(@, batch)]
                /\ todo' = [todo EXCEPT ![c] = batch]
        /\ UNCHANGED <<given, taken, queueVars>>

\* The unique_ptr that is moved out of the clone of a vertex.
TaskOf(v, c) == IF v \in HasTask THEN [vertex |-> v, call |-> c] ELSE NoTask

\* Mutant of QueueTask: only the first task of a batch is queued.
QueueTaskDropped(c) ==
    /\ Running /\ at[c] = "queueing"
    /\ Queue!push(TaskOf(Head(todo[c]), c))
    /\ todo' = [todo EXCEPT ![c] = <<>>]
    /\ at' = [at EXCEPT ![c] = "looping"]
    /\ UNCHANGED <<given, g_clone, out, taken>>

\* queue_task for each vertex of the batch, each a critical section of the
\* queue.  Nothing waits for the tasks of a batch before the next one.
QueueTask(c) ==
    /\ Running /\ at[c] = "queueing"
    /\ Queue!push(TaskOf(Head(todo[c]), c))
    /\ todo' = [todo EXCEPT ![c] = Tail(@)]
    /\ at' = [at EXCEPT ![c] = IF Len(todo[c]) = 1 THEN "looping" ELSE "queueing"]
    /\ UNCHANGED <<given, g_clone, out, taken>>

-----------------------------------------------------------------------------
\* The scheduler's thread and kill_task.

\* wait_for_and_pop, with an entry as its result.  A wait beside an empty queue
\* changes nothing here; ConcurrentTaskQueue has its steps.
Pop ==
    /\ queue_ # <<>>
    /\ Queue!wait_for_and_pop(Runner)
    /\ taken' = taken \cup ({Head(queue_)} \ {NoTask})
    /\ UNCHANGED <<given, at, callVars>>

\* All that matters of a removed task is that it is out of the queue.
kill_task(v) ==
    /\ Queue!remove_task_from_queue(v, Killer)
    /\ UNCHANGED <<given, at, callVars, taken>>

-----------------------------------------------------------------------------
Call(c) == Check(c) \/ TakeBatch(c) \/ QueueTask(c)

ProcessNext ==
    \/ \E c \in Calls : Call(c)
    \/ Pop
    \/ \E v \in HasTask : kill_task(v)

\* A caller goes on as long as it has something to do.
ProcessSpec ==
    /\ ProcessInit /\ [][ProcessNext]_processVars
    /\ \A c \in Calls : WF_processVars(TakeBatch(c) \/ QueueTask(c))

-----------------------------------------------------------------------------
\* dag_topological_sort succeeds exactly on acyclic graphs, and then lists
\* every vertex once and after all vertices with an edge to it.
SortExact ==
    LET r == dag_topological_sort(given)
    IN  /\ r.ret <=> HasCycle(given)
        /\ ~r.ret =>
            /\ Elements(r.sorted) = VerticesOf(given)
            /\ \A e \in Edge(given) :
                PositionOf(r.sorted, e[1]) < PositionOf(r.sorted, e[2])

BatchOf(batches, v) == CHOOSE k \in DOMAIN batches : v \in Elements(batches[k])

\* A call that returns true has put every vertex into exactly one batch, the
\* earliest one after all its predecessors', and has queued a task, or a null
\* pointer, for each; it returns false exactly for a cyclic graph.  (With the
\* types of the state.)
BatchesExact ==
    ProcessTypeOK /\ \A c \in Calls :
        /\ at[c] = "false" => HasCycle(given) /\ out[c] = <<>>
        /\ at[c] = "true" =>
            LET b == out[c]
            IN  /\ ~HasCycle(given)
                /\ UNION {Elements(b[k]) : k \in DOMAIN b} = VerticesOf(given)
                /\ \A j, k \in DOMAIN b :
                    j # k => Elements(b[j]) \cap Elements(b[k]) = {}
                /\ \A v \in VerticesOf(given) :
                    BatchOf(b, v) = 1 + Cardinality(
                        {BatchOf(b, u) : u \in
                            {w \in VerticesOf(given) : v \in Reachable(given, {w})}})
                /\ \A t \in Tasks : t.call = c => t \notin fresh

\* Tasks leave the queue in an order the edges allow, also when calls overlap
\* and kill_task takes entries out of the middle: when the runner has a task,
\* no task of a predecessor from the same call is still to come.
TakenInOrder ==
    \A t \in taken : \A u \in HasTask :
        t.vertex \in Reachable(given, {u}) =>
            LET before == [vertex |-> u, call |-> t.call]
            IN  before \notin fresh /\ before \notin Elements(queue_)

\* Every call of process_dag returns: each turn of its loop shrinks the clone.
ProcessDagReturns ==
    \A c \in Calls : at[c] = "looping" ~> at[c] \in {"true", "false"} \/ ~Running
=============================================================================
