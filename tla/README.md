# dag_scheduler in TLA+

A verification development for the C++ library `dag_scheduler`: a queue of
tasks, threads that run them stage by stage, a scheduler that moves tasks from
the queue to a pool of such threads, a directed acyclic graph whose vertices
carry the tasks, the deserializer that builds such a graph from a YAML document
and dynamic libraries, the logging all of them use, and an HTTPS front end. The
modules model the code under `src/lib` and `src/include/dag_scheduler`; TLC
checks them on small instances and TLAPS proves the listed theorems for all
values of the constants.

## Inventory

| Component | State | Operations | Interacts with |
|---|---|---|---|
| `ConcurrentTaskQueue` | `queue_`, `mutex_`, `condition_variable_` | `push`, `clear`, `try_pop`, `wait_and_pop`, `wait_for_and_pop`, `remove_task_from_queue` | scheduler loop (consumer), clients and `process_dag` (producers) |
| `Task` | `kill_`, `iterating_`, `stages_`, completion callback, uuid, two JSON documents | construction, `clone`, both moves, `iterate_stages`, `kill`, `complete` | owned in turn by client, vertex, queue, scheduler, thread |
| `InterruptibleTaskThread` | `task_`, `task_lock_`, `interrupt_`, `running_`, `thread_` | `set_task_and_run`, `set_interrupt`, `shutdown`, moves | calls `Task`; called by the scheduler |
| `TaskScheduler` | `queue_`, `pause_`, `kill_`, pool of ten threads | `startup`, `queue_task`, `kill_task`, `pause`, `resume`, `shutdown`, destructor | composes queue and pool |
| `DAG`, `DAGVertex`, `DAGEdge` | `graph_`, `edges_` with weak pointers, cached `incomming_edge_count_`, `json_config_` | add, connect (by vertex, uuid, label), remove (three ways), clone, moves, comparison, reset | owned by clients; read by the algorithms |
| `dag_algorithms` | none | `dag_vertices_with_no_incomming_edges`, `dag_topological_sort`, `process_dag` | DAG, scheduler |
| `DAGDeserializer`, `DynamicLibraryRegistry` | registry of loaded libraries | build a DAG from YAML, load stages | DAG, Task |
| `WorkflowService`, `HTTPSSession`, endpoints | acceptor, session, router | accept, handshake, read, handle, write, shut down, each a callback | Boost.Asio |
| `Logging`, `LoggedClass` | `loggers_` (one sink per tag), `loggers_mutex_`, `init_` | `init`, the add functions, `clear_all`, a record per level | Boost.Log's core; every class that logs |
| `StopWatch`, `UUID` | start/stop flags; a value | | everything |

What is hard here. *Concurrency*: the queue's condition-variable waits with
timeouts; the start of a worker thread that refers to locals of the function
that started it and reports through an unguarded notification; a lock that
protects some accesses to `task_` and not others; flags read one atomic load at
a time by the scheduler's loop, or tested and set in two steps by
`iterate_stages`; moves of objects in use; sinks that exist before they are
filtered. *Ownership*: a task is a `unique_ptr` that is
moved through six owners and dropped on several paths. *Graph state*: cached
counters, weak pointers and deep clones have to agree after every sequence of
calls. *Callbacks* of the service re-arm each other. `PROJECT.json` lists the
hazards one by one, at their lines, with the properties that watch them.

## Modules

| Module | Models |
|---|---|
| `ConcurrentTaskQueue` | the queue; every critical section is one action, the waiting pops are split at the wait |
| `TaskFifo` | abstract specification: arrivals, deliveries in order of arrival, withdrawals |
| `ConcurrentTaskQueueFifo` | the queue with two history variables and the refinement mapping to `TaskFifo` |
| `ConcurrentTaskQueueProofs` | theorems about the queue and the proof of the refinement |
| `Task`, `TaskProofs` | Tasks that their owner makes, clones, moves and destroys while any thread iterates, kills or completes them; theorems |
| `InterruptibleTaskThread` | the slots of a pool with their worker threads and callers, including what they do to the task |
| `InterruptibleTaskThreadProofs` | theorems about the slots |
| `TaskScheduler` | the scheduler, an `INSTANCE` of the queue and one of the pool, sharing tasks, destruction and process fate |
| `TaskSchedulerProofs` | theorems about the scheduler |
| `DagAlgorithms` | graphs as records and the algorithms on them as operators, with path-based reference definitions |
| `Dag` | one `DAG` object and all sequences of its member functions |
| `DagProofs` | theorems about the algorithms, the `DAG` object and `process_dag` |
| `ProcessDag` | calls of `process_dag` in several threads, an `INSTANCE` of the queue they fill, the runner that pops and `kill_task` |
| `DagSerialization`, `DagSerializationProofs` | `make_dag` with all its error paths, and the registry of dynamic libraries it fills; theorems |
| `Logging`, `LoggingProofs` | the registry of sinks, `LoggedClass`, and records written beside it; theorems |
| `WorkflowService` | listener, sessions and endpoint as completion handlers of one `io_context` |
| `WorkflowServiceProofs` | theorems about the service |
| `MC...` | constants for TLC |

### Correspondence

*Queue.* `queue_` is the deque. `call[c]` says where a consumer is in a waiting
pop: `"waiting"` is asleep on the condition variable, `"woken"` released and on
its way to the mutex. `Recheck` is the re-test of the predicate. `held[c]` is
the `unique_ptr` a consumer pops into; overwriting it destroys what it held.
Entries may be null, because `process_dag` queues null tasks, and
`remove_task_from_queue` then dereferences a null pointer (`fate` becomes
`"segfault"`). Several task objects may have one uuid, since `Task::clone` copies
it. `size` and `empty` change nothing and have no action.

*Task.* A member of `Tasks` is a place where a `Task` may be constructed once;
it names also the uuid and the vector of stages the object gets there, so that
a moved vector keeps its identity. `obj[t]` has the members of the object and
`pc[th]` the call a thread is in. A loop over the stages keeps the iterators it
took at its start: when the vector is moved it goes on over it, when the vector is
destroyed it reads freed memory (`"segfault"`), and when the iterators are taken
in the middle of a move they may be torn. `iterating_` is loaded and stored in
two steps. The move constructor asserts after it has moved, the move assignment
before, and neither takes the callback along. `raced` and `moved` are history:
they mark the objects for which the flag, or the stages, can no longer be
trusted. `origin` is history too: the Task that was constructed first, the last
kind of constructor on the way from it, and whether something was assigned to it.
A callback is a function, a plugin that overrides `clone`, or a plain one that
does not, whose clone is the base plugin that only logs. `complete` and the queries that change nothing are operators.

*Thread.* `wpc[s]` is the worker's program counter in the lambda of
`set_task_and_run`, `cpc[c]` a caller's in `set_task_and_run`, `set_interrupt`
or `shutdown`. A step boundary is wherever another thread can look: before and
after each lock, each atomic, and each unlocked access to `task_`. Stages
(`run`, `end`) return an arbitrary boolean. Where two threads race on `task_`,
or the worker notifies a frame that is gone, the outcomes are a crash or an
access that goes unnoticed. A caller waits only for the notification and may
return before the worker has set `running_`. Line 95 constructs the new worker
before the assignment over a joinable thread terminates the process; the model
terminates at once. Not modelled: the move operations (lines 24-43).

*Scheduler.* `spc` is the program counter of the thread in `startup()`; every
load of `kill_` and `pause_` is a step. `next_task` is `held[Runner]`.
`dispatched[t]` records the session (call of `startup()`) in which `t` went to a
slot. The destructor runs in the same thread after `startup()` has returned:
members go in reverse order of declaration, so slots are shut down and joined
from the last to the first, then the queue is destroyed. `thread_pool_lock_` is
only ever taken by one thread and left out.

*DAG.* A graph is a record of `graph_`, `edges_` and the counters. An edge is
the vertex it points to or `Expired`. Counters are unsigned and wrap
(`SizeModulus`). `clone` has the two loops of the copy constructor, vertices
first and then the connections; `Clone` is its closed form, shown equal to it
on every reachable graph by `CloneIdentical` and used where graphs are cloned
often. `Crash` is a null dereference: of an expired edge, of a configuration
that was moved away, of a vertex that is not found. In the sort, one step is
one turn of the loop. `Equal` is `operator==`, which sorts clones of both
graphs and then compares the originals in their order of insertion.

*process_dag.* The graph `g` of the calls (`given`) is chosen initially: any that `add_vertex` and
`DAGVertex::connect`, which does not look for cycles, can build. A task object
is the clone of a vertex's task made by one call. A turn of the loop is
`TakeBatch`, with the removal the code makes inside `assert()`, and then
`QueueTask` for each vertex of the batch, a critical section of the queue each:
other calls, the runner's pops and `kill_task` fall in between. A vertex
without a task queues a null pointer, which `kill_task` dereferences.

*Deserializer.* `at` is the next thing `make_dag` reads; the document is
revealed as it is read, every step choosing what the node holds. `handles[l]`
counts how often a library is open: `RegistryAfter` adds up what constructor,
copy constructor and destructor of a `DLRegistryItem` do in one registration.
The stages of a task are abstracted to the libraries they came from. The
temporary handle that `import_alias` opens and closes within one call (lines 533
and 675) is left out, and so is the kind of YAML error: a node of the wrong form
is rejected like a missing one. As in the
code, the test for `LibraryName` asks for `Name`, `Connections` are never read,
and a vertex with a uuid that is present is dropped silently. An exception
destroys the DAG under construction and leaves the static registry alone.

*Logging.* `loggers_` is the registry, `core` the sinks of Boost.Log's core,
which is external: it hands a record to every sink whose filter lets it pass,
and to a default sink if there is none. Opening a record and
pushing it are one step of the core. Tags are the texts that `find_sink`
compares; the tag of a `LoggedClass` is its type and address. `configure_sink`
adds the sink before it sets its filter, so `Enter` and `Register` are two
steps. The constructor of `LoggedClass` makes two add calls, each with the mutex
for itself; `clear_all` removes sink by sink. The history `cleared` has the
threads that saw a `clear_all` begin between the two calls of their constructor. `init` is the two-step test
and store of `init_` around `add_common_attributes`.

*Service.* `pending[o]` is the number of outstanding asynchronous operations of
one kind for one client; there is one action per completion handler, which
consumes its operation and may start another. `conn` follows a client from the
kernel's backlog into a session; `Reset` is `HTTPSListener::reset`, which closes
the acceptor and with it drops the backlog. The loop that should start further
threads runs over the size of an empty vector, so one thread runs all handlers;
`threads: 0` makes the reservation throw. `dropped` names the branch, of the
four that only log, after which nothing is outstanding. `NeedEof` decides from
the content length and the peer's wish whether a response ends the connection;
`server_error` and a successful GET set no content length. `Handler` is what the
endpoint sends and what it returns; `Responses` adds what `on_read` sends for a
false status or an unregistered target, and every response starts a write.

## Runs

| Run | Instance | Shows |
|---|---|---|
| `queue` | 3 tasks, 2 uuids (two objects share one), 2 consumers, length 3 | no lost wakeup, one owner per task; timed waits return, waiters are served; the queue implements `TaskFifo` |
| `task` | 3 places with 2, 1 and 1 stages, with a function, a plain plugin and one that overrides `clone` as callbacks; owner and 2 more threads (symmetric); stages are iterated only while the third place is unused (`MCBound`) | `iterating_` covers an iteration unless iterations overlapped or the Task was assigned to; success means that every stage ran; which callback a Task still calls after chains of clones, moves and assignments, and when it reports under a uuid that is not its callback's |
| `thread` | 1 slot, owner and a second caller, a task of 2 stages and one of none | callbacks once and on an idle slot; a kill during the stages never ends in success; a started task is reported, `shutdown` returns; a start returns unless its notification was missed |
| `scheduler` | 2 tasks (symmetric), 2 slots, 1 client, 2 sessions, queue of 2 | one owner per task across all components; one dispatch per session; no `std::terminate` in a first session; only dispatched tasks report; nothing is left after the destructor |
| `scheduler_live` | 1 task, 2 slots, 1 client, 2 sessions | shutdown ends the session (or the runner sleeps on a missed notification); the destructor returns |
| `dag` | 4 vertices, 2 labels | no sequence of calls makes a cycle; counters exact; cycle check equals reachability; a clone is identical; the check by label predicts `connect_all_by_label`, inverted |
| `process_dag` | every graph on 3 vertices, one of them without a task; 2 calls, runner, killer | sort and batches equal their definitions, on cyclic graphs too; tasks leave the queue in an order the edges allow; every call returns |
| `serialization` | 3 libraries, 2 of them loadable, 2 uuids, 3 vertices per document, any number of documents | libraries stay loaded while a DAG uses them, also after failed documents; handles balanced |
| `logging` | 1 tag of a client, 1 of a `LoggedClass`, 2 threads, 2 levels, 2 streams | one filtered sink per registered tag; records reach their stream and no other, except sinks that are just being added; a class gets a logger to `std::cerr` only if a `clear_all` fell between the two calls of its constructor |
| `service` | 3 clients, 2 requests each | one operation outstanding or none after a logged error; one answer per request, none read after a closing one; accepts only without a session; a queued client gets a session alone, or is lost to `reset` or a failed `keep_alive`; a closing session makes the service accept again |

Two further runs show, by a counterexample, that the code does not do what its
tests or comments say:

* `thread_start_returns`: `set_task_and_run` may sleep for ever, because the
  worker can notify before it waits;
* `dag_dangling_edge`: removing a vertex leaves expired edges to it.

Three other disagreements are stated as what is true of the code instead, and
hold in passing runs (all five are `findings` in `PROJECT.json`):

* `OneDispatchPerSession` (`scheduler`): the inner loop of `startup()` has no
  `break` after a dispatch, so one session takes one task and the rest of what
  `process_dag` queued waits;
* `LabelCheckInverted` (`dag`): `connection_would_make_cyclic_by_label` answers
  true exactly when connecting would not make a cycle;
* `CerrNeedsClear` (`logging`): the second logger that the constructor of
  `LoggedClass` adds is refused, because its tag is registered already, unless a
  `clear_all` came since the first.

`StartReturnsOrMissed` and `ShutdownEndsSession` name the missed notification as
the only obstacle to a start and to a shutdown.

Every module has, before some of its definitions, a mutant marked in a comment:
a plausible mistake in that code, with which the run of the property named in
`PROJECT.json` fails. One of them is the build with `NDEBUG`: there the removal
inside `assert()` disappears and `ProcessDagReturns` fails.

### Bounds

`MaxLength`, `MaxSessions`, `MaxVertices`, `MaxRequests`, the pool size,
`SizeModulus`, `MCBound` and the sets are the only bounds. Two consumers are enough for one
to take another's entry; three tasks and a shared uuid for a removal with
several matches around a kept entry; two sessions for a slot to be used again;
two slots for a scan to pass over one, and both can be busy. Two places and
three threads are a Task that is moved into another while both are iterated, by
two threads at once; three places are a chain of two clones or moves, or a clone
and an assignment to it. Four vertices with two labels hold every shape in which a
pair of connections by label closes a cycle between groups; vertices of one
label are interchangeable. A counter never exceeds the number of vertices, so
modulo 16 a decrement too many still shows as a wrap. Three vertices with
direct connects include self-loops, two- and three-cycles, and batches
of one to three vertices; two calls make two clones of one task. Two loadable
libraries and one that is not, named by any of three vertices of which two must
share a uuid, give first and repeated registrations before and after a failure.
Two threads and two tags are an add beside a record, a clear between the two
adds of a constructor, and an add of a tag that is being added. Three clients
are one in a session, one in the backlog and one that comes after the reset; two
requests are one that keeps the connection and one that ends it. Deadlock
checking is off, except in `serialization` and `logging`, where a thread can
always make another call: elsewhere clients may stop calling, calls of
`process_dag` are finitely many, and a process that has died takes no step.

### Fairness

Weak fairness for every thread that can take a step: the operating system
schedules it, critical sections are finite, and stages and callbacks return.
Deadlines pass. In the thread module the worker's acquisition of `task_lock_`
has strong fairness: callers of `set_interrupt` may take the lock any number of
times in between, but a mutex is not withheld for ever. In the service only
`on_run`, which is dispatched at once, and `on_shutdown`, for which the code sets
a deadline of 30 s, are fair: the deadlines of handshake and read are commented
out, so a silent peer holds its session for ever. A thread inside `process_dag`
is scheduled until it returns: no step of its loop waits for anybody. Client
calls and spurious wakeups have no fairness: nothing depends on them. `Task`,
`Logging`, `Dag` and `DagSerialization` have safety properties only: each of
their calls is a finite loop.

## Proofs

Each proof module states an inductive invariant, one lemma per action that
preserves it, and the theorems that follow. The types of the state are part of
every one of these invariants.

`ConcurrentTaskQueueProofs`, for all sets of tasks, uuids and consumers:

* `TypeCorrect`: `Spec => []TypeOK`. The only step with substance is the deque
  that `remove_task_from_queue` leaves, a sequence again.
* `WakeupsNotLost`: `Spec => []NoLostWakeup`. With the type invariant the
  property is inductive: a push empties the set of waiters, and a consumer
  joins it only beside an empty deque.
* `OwnersUnique`: `Spec => []UniqueOwner`, the conjunction of no duplicate in
  the deque, no task held twice, disjoint owners and no leak. The four
  parts need each other: that a pop does not duplicate a task needs the deque
  to be free of duplicates, that a removal destroys the right ones needs
  ownership to be disjoint.

and, with the two histories of `ConcurrentTaskQueueFifo`:

* `HistoryInvariant`: `HSpec => []HInv`;
* `QueueIsFifo`: `HSpec => ImplementsFifo`, the refinement of `TaskFifo`. The
  initial state maps to an initial state, and each action to an arrival, a
  delivery, a withdrawal or a stutter. `HInv` adds to unique owners that the
  arrivals are exactly the tasks that have left their clients, that the deque
  lists its tasks in order of arrival (so its head is the oldest one left), and
  that a delivered task is neither in the deque nor with its client.

`TaskProofs`, for any number of places, threads and stages:

* `TaskInvariant`: `Spec => []TInv`;
* `FlagCovers`: `Spec => []FlagCoversIteration`;
* `SuccessComplete`: `Spec => []SuccessIsComplete`;
* `CallbackByOrigin`: `Spec => []CallbackFollowsOrigin`.

`TInv` says of a thread's frame to which Task and vector it belongs, of a Task
that is not marked that its flag and its vector are its own, and of a running
loop that it has run the stages before its iterator. `Leave` shows why `raced`
is needed: the first of two overlapping iterations to end clears the flag of
the other. `Kept` has the callback of every Task, moved ones included, determined
by its `origin`, also of one whose move constructor has not returned yet.

`InterruptibleTaskThreadProofs`, for any tasks, slots, stages and callers:

* `ThreadInvariant`: `Spec => []ThreadInv`;
* `CallbackOnce`: `Spec => []CompletedOnce`;
* `CallbackIdle`: `Spec => []CallbackSeesIdleSlot`;
* `IterationInvariant`: `Spec => []IterInv`;
* `KillIsFinal`: `Spec => KillPreventsSuccess`, a temporal property.

A callback is called once because a task is at one place only (with its client,
in the argument of a start, in `task_`, in the worker's `tmp`) and has not been
reported while it is there (`ReportInv`); that needs `SlotInv`: no worker
without a thread, `running_` and `task_` cleared before the callback. A killed
task cannot succeed because the set of doomed tasks, killed with stages left or
with a false result stored, only grows; `IterInv` connects the worker's place in
the loop with the task it iterates.

`TaskSchedulerProofs`, for any number of tasks, clients, slots and sessions:

* `OneTaskPerSession`: `Spec => []OneDispatchPerSession`.
* `FirstSessionSafe`: `Spec => []FirstSessionNeverTerminates`.
* `OneOwnerAcross`: `Spec => []TaskHasOneOwner`.
* `ReportsAreOfDispatched`: `Spec => []OnlyDispatchedReport`.
* `DestructorLeavesNothing`: `Spec => []CleanAfterDestruction`.

The first two follow from the inductive invariant `LoopInv`. Neither property is
inductive: that a second dispatch cannot happen rests on where the runner is
after the first (`AfterDispatch`: no task in hand, inside the inner loop or
leaving through `kill_`), which in turn rests on the queue changing `next_task`
only while the runner is inside `wait_for_and_pop`, and on `dispatched` never
exceeding the session number. For the second property, threads exist in the
first session only after its dispatch, and a start in progress
(`assign`, `spawn`) only inside `starting`. The pool's steps other than
`SpawnThread` are summarised by `QuietPoolStep`.

The other three follow from `SchedulerInv`, which adds ownership. The invariants
of queue and pool are not proved again: the proof module instantiates the two
components' proof modules, once as the queue sees the scheduler (`QueueView`: a
task that went to the pool is gone) and once as the pool sees it (`PoolView`: a
task that is not yet dispatched nor destroyed is still with its client), and
shows for each action of the scheduler that it is a step, or a stutter, of each
view or keeps the view's invariant directly. What neither view knows is between
them: a task is in one view's part only, the parameter of `set_task_and_run` and
a worker's `tmp` are empty outside the steps that use them (`Transient`), the
hands of a client are empty outside `kill_task` (`HandsEmpty`), and a dispatched
task is with the pool until it has reported (`OnItsWay`). For the destructor,
`Destruction` says how far it has come: the slots above `doomed` are joined.

`DagProofs`, for any vertices, labels and calls:

* `DagInvariant`: `Spec => []DagInv`;
* `CountersStayExact`: `Spec => []CountersExact`;
* `GraphStaysAcyclic`: `Spec => []StaysAcyclic`;
* `CycleCheckIsExact`: `Spec => []CycleCheckExact`;
* `LabelCheckIsInverted`: `Spec => []LabelCheckInverted`;
* `CloneIsIdentical`: `Spec => []CloneIdentical`;
* `SortIsExact`: `ProcessSpec => []SortExact`;
* `ProcessInvariant`: `ProcessSpec => []ProcessInv`;
* `BatchesAreExact`: `ProcessSpec => []BatchesExact`;
* `TasksTakenInOrder`: `ProcessSpec => []TakenInOrder`.

The module extends both `Dag` and `ProcessDag`, whose names therefore differ
(`ProcessInit`, `ProcessNext`, `ProcessSpec`). `DagInv` says of the graph that it is `WellFormed` (vertices entered once, no
vertex connected twice to another, edges only to vertices of the graph or
expired, counters the number of sources) and `Acyclic` (the vertices can be
numbered so that numbers grow along the edges). The loops of the code are folds
and iterations, that is recursive functions of the number of turns; for each a
lemma (`SortRun`, `ReachRun`, `RowRun`, ...) provides the sequence of states
between the turns, and induction along it is stated with sets, through the least
element of a set of numbers, because the library's induction rules take
operators. The centre is `SortFindsCycles`: on every well-formed graph
`dag_topological_sort` reports a cycle exactly if some vertex can be reached
from itself. Its loop keeps `SortInv` (what is sorted has all
its sources before it, what is queued has none left, the counters are those of
the remaining graph); if vertices remain at the end each has a source among
them, and walking back through finitely many sources closes a path
(`SourcesWithinHasCycle`), with `Reachable` the least set closed under edges.
A connection that passes the check keeps a numbering (`ForwardEdgeAcyclic`), and
between two groups the checks made pair by pair beforehand stay true while pairs
are connected, because no path leads back from the second group to the first
(`NoWayBack`).

For `process_dag` the inductive invariant `ProcessInv` says of each call what
its clone and its batches have to do with the graph (`BatchInv`): the clone is
the graph without the vertices in batches; sources of a batched vertex are in
earlier batches, one of them in the batch just before; and the same will hold
for the vertices that are free now. That the batch number is one more than the
number of batches with ancestors follows when the clone is empty
(`AncestorLevels`), and it is empty when no vertex is free, since the graph is
acyclic (`LastBatch`). A task is not with its call any more exactly if its
vertex is in a batch and not in `todo`, so a queued task has no ancestor that is
still to be queued (`PredecessorsQueued`); hence a push never puts a task behind
its descendants. `OrderInv` carries this through pops and through removals from
the middle of the queue.

`WorkflowServiceProofs`, for any set of clients and number of requests:

* `ServiceInvariant`: `Spec => []SInv`;
* `OneOperationAtATime`: `Spec => []OneOperation`;
* `RequestsAnsweredOnce`: `Spec => []AnsweredOnce`;
* `AcceptIsAlone`: `Spec => []AcceptsAlone`;
* `BacklogOnlyReset`: `Spec => LostOnlyByReset`, an action property.

That exactly one operation is outstanding is what the others rest on: a handler
that consumes the only operation and starts one leaves again one, of a known
kind. `SInv` adds what the handlers know implicitly: the acceptor listens while
the service is up, an operation of a client belongs to an open session,
and a connection that was announced to end is only written to or shut down. That
a request has one response (`OneResponse`) is where what the endpoint sends and
returns comes in.

`DagSerializationProofs`, for any libraries, uuids and documents of any length:

* `RegistryInvariant`: `Spec => []DInv`;
* `LibrariesLoaded`: `Spec => []LoadedWhileUsed`;
* `HandlesExact`: `Spec => []HandlesBalanced`.

That a library in use is loaded is not inductive: a DAG keeps no handle of its
own. `DInv` adds that everything a DAG, finished or under construction, came from
is registered, and with balanced handles a registered library is open.

`LoggingProofs`, for any tags, threads, streams and levels:

* `LoggingInvariant`: `Spec => []LInv`;
* `RegistryMatchesCore`: `Spec => []RegistryIsCore`;
* `CerrRefused`: `Spec => CerrNeedsClear`;
* `RecordsDelivered`: `Spec => DeliveredExactly`; both are action properties.

While a thread adds or clears, registry and core differ; `LInv` says by how much:
at most one thread is inside the mutex, the sink it adds is the last of the core
and the only one without a filter, and all the others are registered. For
`std::cerr` it says that between the two calls of a constructor the tag stays
registered unless the thread is in `cleared`, and that while somebody clears every
thread between its two calls is.

The proofs assume only what the modules `ASSUME`: the null pointer is no task,
every task has a uuid and a number of stages, the bounds are natural numbers,
the runner is no client, the owner is one of the threads, no callback is not a
callback, the accept operation
belongs to no client, the tags of clients and classes differ, an expired edge is
no vertex, every vertex has a label, and the vertices are finitely many and
fewer than a `std::size_t` can count.

Every invariant of the runs, and every action property without fairness, is thus
a theorem. Model-checked only: the liveness properties (fairness is beyond the
prover).

## Not modelled

* The syntax of YAML and JSON documents, bodies and MIME types of HTTP
  responses, TLS, formats and files of log records, and the user code of stages
  and callback plugins: I/O or libraries. What such code returns is a
  nondeterministic choice.
* `RegisterDAGEndpoint`, which is never registered with the service.
* `StopWatch`, which is sequential: two flags and a clock, each call understood
  on its own. `UUID`, a value. The executables, which parse a command line.
* The moves of `InterruptibleTaskThread` (`interruptible_task_thread.cxx:24-43`):
  nothing in `src/lib` moves a slot that is in use.
* `DAG::operator=(const DAG &)`, which is protected and which only tests call,
  `DAGVertex::restablish_connections`, and vertices connected outside a DAG.
* Titles and the contents of the configuration of a DAG or Task; only whether the
  pointers to them are null is kept.

Four hazards have no property. Their notes in `PROJECT.json` say why: in each
the code makes no promise that could be stated, and the model has the behaviour.

## Plan

Left to do: the moves of `InterruptibleTaskThread`, should the pool ever be
resized, and step properties of the `DAG` object (what a failing
`connect_all_by_label` leaves behind).
