--------------------------- MODULE TaskScheduler ---------------------------
(***************************************************************************)
(* com::dag_scheduler::TaskScheduler: the loop of startup(), composed with *)
(* its ConcurrentTaskQueue and its pool of InterruptibleTaskThread.        *)
(*                                                                         *)
(* One runner thread calls startup(); when it has returned it may be       *)
(* called again (a new session) or the scheduler may be destroyed.  Client *)
(* threads queue and kill tasks, pause, resume and shut down at any time.  *)
(* Every atomic load and store of pause_ and kill_ is a step of its own.   *)
(* thread_pool_lock_ is taken by the runner only and so never contended.   *)
(***************************************************************************)
EXTENDS Naturals, Sequences, FiniteSets

CONSTANTS
    Tasks, UUIDs, UuidOf, NoTask, StageCount, MaxLength,
    PoolSize,       \* size of thread_pool_ (10 in the code)
    Runner,         \* the thread in startup(), and later in the destructor
    Clients,        \* threads that call the other member functions
    MaxSessions     \* bound: calls of startup()

Slots == 1..PoolSize

ASSUME PoolAssumption == PoolSize \in Nat \ {0}
ASSUME SchedulerTaskAssumption == NoTask \notin Tasks
ASSUME RunnerAssumption == Runner \notin Clients
ASSUME SessionsAssumption == MaxSessions \in Nat \ {0}
ASSUME SchedulerUuidAssumption == UuidOf \in [Tasks -> UUIDs]
ASSUME SchedulerStagesAssumption == StageCount \in [Tasks -> Nat]
ASSUME SchedulerLengthAssumption == MaxLength \in Nat

VARIABLES
    \* the queue
    queue_, call, timed, expired, held,
    \* the pool
    task_, task_lock_, interrupt_, running_, thread_,
    wpc, iterated, stage, status, tmp,
    cpc, slot, arg, flag, seen, after, started, killed, callbacks,
    \* shared by all
    fresh, destroyed, fate,
    \* the scheduler: its flags, the runner's program counter and the local
    \* unused_index (next_task is held[Runner]), the clients' and the
    \* destructor's program counters, and the slot it destroys next
    pause_, kill_, spc, unused_index, client, dtor, doomed,
    session,        \* calls of startup() so far
    dispatched      \* session in which each task went to a slot, 0 if none

queueVars == <<queue_, call, timed, expired, held>>
poolVars == <<task_, task_lock_, interrupt_, running_, thread_, wpc, iterated,
              stage, status, tmp, cpc, slot, arg, flag, seen, after, started>>
taskVars == <<killed, callbacks, fresh, destroyed>>
loopVars == <<spc, unused_index, session, dispatched>>
dtorVars == <<dtor, doomed>>
schedVars == <<pause_, kill_, loopVars, client, dtorVars>>
vars == <<queueVars, poolVars, taskVars, fate, schedVars>>

Queue == INSTANCE ConcurrentTaskQueue WITH Consumers <- Clients \cup {Runner}

Pool == INSTANCE InterruptibleTaskThread WITH
    Callers <- {Runner}, Owner <- Runner, InterruptArgs <- {TRUE}

Alive == fate = "alive"
next_task == held[Runner]

TypeOK ==
    /\ Queue!TypeOK
    /\ Pool!TypeOK
    /\ pause_ \in BOOLEAN /\ kill_ \in BOOLEAN
    /\ spc \in {"out", "unpause", "unkill", "outer", "gate", "gatepause", "pop",
                "popping", "inner", "innerpause", "scan", "recheck", "dispatch",
                "starting"}
    /\ unused_index \in Slots
    /\ client \in [Clients -> {"idle", "stopping", "killing"}]
    /\ dtor \in {"no", "slots", "joining", "gone"}
    /\ doomed \in 0..PoolSize
    /\ session \in 0..MaxSessions
    /\ dispatched \in [Tasks -> 0..MaxSessions]

Init ==
    /\ Queue!Init
    /\ Pool!ThreadInit
    /\ pause_ = TRUE /\ kill_ = TRUE
    /\ spc = "out"
    /\ unused_index = 1
    /\ client = [c \in Clients |-> "idle"]
    /\ dtor = "no"
    /\ doomed = PoolSize
    /\ session = 0
    /\ dispatched = [t \in Tasks |-> 0]

-----------------------------------------------------------------------------
\* The runner in startup().  Go(a, b): its program counter moves from a to b.
Go(from, to) ==
    Alive /\ spc = from /\ spc' = to

startup ==
    /\ Go("out", "unpause")
    /\ dtor = "no" /\ session < MaxSessions
    /\ session' = session + 1
    /\ UNCHANGED <<queueVars, poolVars, taskVars, fate, pause_, kill_,
                   unused_index, dispatched, client, dtorVars>>

\* pause_.store(false); kill_.store(false): a shutdown() that came before is
\* forgotten.
StoreUnpaused ==
    /\ Go("unpause", "unkill")
    /\ pause_' = FALSE
    /\ UNCHANGED <<queueVars, poolVars, taskVars, fate, kill_, unused_index,
                   session, dispatched, client, dtorVars>>

StoreUnkilled ==
    /\ Go("unkill", "outer")
    /\ kill_' = FALSE
    /\ UNCHANGED <<queueVars, poolVars, taskVars, fate, pause_, unused_index,
                   session, dispatched, client, dtorVars>>

\* Steps of the runner that only load a flag.
LoadStep ==
    /\ \/ Go("outer", IF kill_ THEN "out" ELSE "gate")
       \/ Go("gate", IF kill_ THEN "outer" ELSE "gatepause")
       \/ Go("gatepause", IF pause_ THEN "outer" ELSE "pop")
       \/ ~kill_ /\ Go("inner", "innerpause")
       \/ Go("innerpause", IF pause_ THEN "inner" ELSE "scan")
       \/ ~kill_ /\ Go("recheck", "dispatch")
    /\ unused_index' = IF spc = "innerpause" THEN 1 ELSE unused_index
    /\ UNCHANGED <<queueVars, poolVars, taskVars, fate, pause_, kill_, session,
                   dispatched, client, dtorVars>>

\* queue_.wait_for_and_pop(next_task, 5ms) ...
CallPop ==
    /\ Go("pop", "popping")
    /\ Queue!wait_for_and_pop(Runner)
    /\ UNCHANGED <<poolVars, killed, callbacks, pause_, kill_, unused_index,
                   session, dispatched, client, dtorVars>>

\* ... returns, with a task, with a null entry, or after the timeout.
PopReturns ==
    /\ Go("popping", IF next_task = NoTask THEN "outer" ELSE "inner")
    /\ call[Runner] = "idle"
    /\ UNCHANGED <<queueVars, poolVars, taskVars, fate, pause_, kill_,
                   unused_index, session, dispatched, client, dtorVars>>

\* Mutant of AbandonTask: the dropped task reports failure.
AbandonTaskReporting ==
    /\ kill_
    /\ Go("inner", "outer") \/ Go("recheck", "outer")
    /\ killed' = [t \in Tasks |-> killed[t] \/ t = next_task]
    /\ callbacks' = [t \in Tasks |-> IF t = next_task THEN Append(callbacks[t], FALSE)
                                                      ELSE callbacks[t]]
    /\ destroyed' = destroyed \cup ({next_task} \ {NoTask})
    /\ held' = [held EXCEPT ![Runner] = NoTask]
    /\ UNCHANGED <<queue_, call, timed, expired, poolVars, fresh, fate, pause_,
                   kill_, unused_index, session, dispatched, client, dtorVars>>

\* Mutant of AbandonTask: the loop is left only while next_task is not null.
AbandonTaskIfAny ==
    /\ kill_ /\ next_task # NoTask
    /\ Go("inner", "outer") \/ Go("recheck", "outer")
    /\ killed' = [killed EXCEPT ![next_task] = TRUE]
    /\ destroyed' = destroyed \cup {next_task}
    /\ held' = [held EXCEPT ![Runner] = NoTask]
    /\ UNCHANGED <<queue_, call, timed, expired, poolVars, callbacks, fresh, fate,
                   pause_, kill_, unused_index, session, dispatched, client, dtorVars>>

\* kill_ seen inside the inner loop: next_task is killed and destroyed, and
\* the loop left.  Nothing calls its callback.
AbandonTask ==
    /\ kill_
    /\ Go("inner", "outer") \/ Go("recheck", "outer")
    /\ killed' = [t \in Tasks |-> killed[t] \/ t = next_task]
    /\ destroyed' = destroyed \cup ({next_task} \ {NoTask})
    /\ held' = [held EXCEPT ![Runner] = NoTask]
    /\ UNCHANGED <<queue_, call, timed, expired, poolVars, callbacks, fresh, fate,
                   pause_, kill_, unused_index, session, dispatched, client, dtorVars>>

\* first_unused_thread(): loads running_ of one slot after the other.
ScanSlot ==
    /\ \/ ~running_[unused_index] /\ Go("scan", "recheck") /\ UNCHANGED unused_index
       \/ /\ running_[unused_index]
          /\ IF unused_index = PoolSize
             THEN Go("scan", "inner") /\ UNCHANGED unused_index
             ELSE Go("scan", "scan") /\ unused_index' = unused_index + 1
    /\ UNCHANGED <<queueVars, poolVars, taskVars, fate, pause_, kill_, session,
                   dispatched, client, dtorVars>>

\* Mutant of Dispatch: next_task is passed on but still owned by the loop.
DispatchCopying ==
    /\ \/ /\ next_task # NoTask
          /\ Go("dispatch", "starting")
          /\ Pool!set_task_and_run(unused_index, next_task)
          /\ dispatched' = [dispatched EXCEPT ![next_task] = session]
       \/ /\ next_task = NoTask
          /\ Go("dispatch", "inner")
          /\ UNCHANGED <<poolVars, killed, callbacks, destroyed, fate, dispatched>>
    /\ UNCHANGED <<queueVars, fresh, pause_, kill_, unused_index, session, client,
                   dtorVars>>

\* Mutant of Dispatch: the inner loop is left once next_task is null.
DispatchLeavingLoop ==
    /\ \/ /\ next_task # NoTask
          /\ Go("dispatch", "starting")
          /\ Pool!set_task_and_run(unused_index, next_task)
          /\ dispatched' = [dispatched EXCEPT ![next_task] = session]
          /\ held' = [held EXCEPT ![Runner] = NoTask]
       \/ /\ next_task = NoTask
          /\ Go("dispatch", "outer")
          /\ UNCHANGED <<poolVars, killed, callbacks, destroyed, fate, dispatched,
                         held>>
    /\ UNCHANGED <<queue_, call, timed, expired, fresh, pause_, kill_,
                   unused_index, session, client, dtorVars>>

\* if (next_task) set_task_and_run(std::move(next_task)).  There is no break:
\* the inner loop goes on with a null next_task.
Dispatch ==
    /\ \/ /\ next_task # NoTask
          /\ Go("dispatch", "starting")
          /\ Pool!set_task_and_run(unused_index, next_task)
          /\ dispatched' = [dispatched EXCEPT ![next_task] = session]
          /\ held' = [held EXCEPT ![Runner] = NoTask]
       \/ /\ next_task = NoTask
          /\ Go("dispatch", "inner")
          /\ UNCHANGED <<poolVars, killed, callbacks, destroyed, fate, dispatched,
                         held>>
    /\ UNCHANGED <<queue_, call, timed, expired, fresh, pause_, kill_,
                   unused_index, session, client, dtorVars>>

\* Mutant of StartReturned: a break after the dispatch.
StartReturnedBreak ==
    /\ Go("starting", "outer")
    /\ cpc[Runner] = "idle"
    /\ UNCHANGED <<queueVars, poolVars, taskVars, fate, pause_, kill_,
                   unused_index, session, dispatched, client, dtorVars>>

StartReturned ==
    /\ Go("starting", "inner")
    /\ cpc[Runner] = "idle"
    /\ UNCHANGED <<queueVars, poolVars, taskVars, fate, pause_, kill_,
                   unused_index, session, dispatched, client, dtorVars>>

RunnerStep ==
    \/ StoreUnpaused \/ StoreUnkilled \/ LoadStep \/ CallPop \/ PopReturns
    \/ AbandonTask \/ ScanSlot \/ Dispatch \/ StartReturned

-----------------------------------------------------------------------------
\* Clients.  None of them may use the scheduler once its destructor runs.

ClientMayCall(c) == Alive /\ dtor = "no" /\ client[c] = "idle"

queue_task(t) ==
    /\ dtor = "no"
    /\ Queue!push(t)
    /\ UNCHANGED <<poolVars, killed, callbacks, schedVars>>

\* kill_task only removes from the queue; the removed task is destroyed when
\* to_kill goes out of scope.  A task that runs or is about to is not touched.
kill_task(c, u) ==
    /\ ClientMayCall(c)
    /\ client' = [client EXCEPT ![c] = "killing"]
    /\ Queue!remove_task_from_queue(u, c)
    /\ UNCHANGED <<poolVars, killed, callbacks, pause_, kill_, loopVars, dtorVars>>

KillTaskReturns(c) ==
    /\ client[c] = "killing"
    /\ client' = [client EXCEPT ![c] = "idle"]
    /\ \/ Queue!Release(c)
       \/ Alive /\ held[c] = NoTask /\ UNCHANGED <<queueVars, fresh, destroyed, fate>>
    /\ UNCHANGED <<poolVars, killed, callbacks, pause_, kill_, loopVars, dtorVars>>

pause(c) ==
    /\ ClientMayCall(c)
    /\ pause_' = TRUE
    /\ UNCHANGED <<queueVars, poolVars, taskVars, fate, kill_, loopVars, client, dtorVars>>

resume(c) ==
    /\ ClientMayCall(c)
    /\ pause_' = FALSE
    /\ UNCHANGED <<queueVars, poolVars, taskVars, fate, kill_, loopVars, client, dtorVars>>

\* shutdown(): pause(), then kill_.store(true).
shutdown(c) ==
    /\ ClientMayCall(c)
    /\ pause_' = TRUE
    /\ client' = [client EXCEPT ![c] = "stopping"]
    /\ UNCHANGED <<queueVars, poolVars, taskVars, fate, kill_, loopVars, dtorVars>>

ShutdownStoresKill(c) ==
    /\ Alive /\ client[c] = "stopping"
    /\ kill_' = TRUE
    /\ client' = [client EXCEPT ![c] = "idle"]
    /\ UNCHANGED <<queueVars, poolVars, taskVars, fate, pause_, loopVars, dtorVars>>

ClientStep(c) == ShutdownStoresKill(c) \/ KillTaskReturns(c)

-----------------------------------------------------------------------------
\* The destructor, after startup() returned and with no client call pending.
\* The members go in reverse order of declaration: the slots of the pool, last
\* one first, each of them shut down and joined; then what the queue holds.

Destroy ==
    /\ Alive /\ dtor = "no" /\ spc = "out"
    /\ \A c \in Clients : client[c] = "idle"
    /\ dtor' = "slots"
    /\ UNCHANGED <<queueVars, poolVars, taskVars, fate, pause_, kill_, loopVars,
                   client, doomed>>

ShutdownSlot ==
    /\ dtor = "slots" /\ doomed > 0
    /\ Pool!shutdown(doomed)
    /\ dtor' = "joining"
    /\ doomed' = doomed - 1
    /\ UNCHANGED <<queueVars, pause_, kill_, loopVars, client>>

SlotGone ==
    /\ Alive /\ dtor = "joining" /\ cpc[Runner] = "idle"
    /\ dtor' = "slots"
    /\ UNCHANGED <<queueVars, poolVars, taskVars, fate, pause_, kill_, loopVars,
                   client, doomed>>

QueueGone ==
    /\ Alive /\ dtor = "slots" /\ doomed = 0
    /\ dtor' = "gone"
    /\ queue_' = <<>>
    /\ destroyed' = destroyed \cup (Queue!Entries(queue_) \ {NoTask})
    /\ UNCHANGED <<call, timed, expired, held, poolVars, killed, callbacks, fresh,
                   fate, pause_, kill_, loopVars, client, doomed>>

DestructorStep == ShutdownSlot \/ SlotGone \/ QueueGone

-----------------------------------------------------------------------------
\* A step inside a call of the queue or of the pool.
QueueStep ==
    /\ Queue!Expire(Runner) \/ Queue!SpuriousWakeup(Runner) \/ Queue!Recheck(Runner)
    /\ UNCHANGED <<poolVars, killed, callbacks, schedVars>>

PoolStep ==
    /\ Pool!ThreadStep
    /\ UNCHANGED <<queueVars, schedVars>>

ClientCall ==
    \/ \E t \in Tasks \cup {NoTask} : queue_task(t)
    \/ \E c \in Clients :
        \/ \E u \in UUIDs : kill_task(c, u)
        \/ pause(c) \/ resume(c) \/ shutdown(c)

Next ==
    \/ startup \/ RunnerStep
    \/ QueueStep \/ PoolStep
    \/ ClientCall
    \/ \E c \in Clients : ClientStep(c)
    \/ Destroy \/ DestructorStep

Spec == Init /\ [][Next]_vars

\* Every thread that can move is scheduled, deadlines pass, stages and
\* callbacks return.  Nobody has to call anything, nothing wakes up
\* spuriously by obligation.
Fairness ==
    /\ WF_vars(RunnerStep)
    /\ WF_vars(Queue!Recheck(Runner) /\ QueueStep)
    /\ WF_vars(Queue!Expire(Runner) /\ QueueStep)
    /\ WF_vars((Pool!OwnerStep \/ Pool!CallerStep(Runner)) /\ PoolStep)
    /\ \A s \in Slots :
        WF_vars((Pool!WorkerProgress(s) \/ Pool!LockForStage(s)) /\ PoolStep)
    /\ \A c \in Clients : WF_vars(ClientStep(c))
    /\ WF_vars(DestructorStep)

FairSpec == Spec /\ Fairness

-----------------------------------------------------------------------------
\* The unique_ptrs that own a task: a client's, the queue's, next_task or
\* to_kill, the parameter of set_task_and_run, a slot's, that of a worker about
\* to complete it, or none any more.
Owners(t) ==
    (IF t \in fresh THEN {<<"client">>} ELSE {})
    \cup {<<"queue", i>> : i \in {j \in DOMAIN queue_ : queue_[j] = t}}
    \cup {<<"held", c>> : c \in {d \in Clients \cup {Runner} : held[d] = t}}
    \cup (IF arg[Runner] = t THEN {<<"argument">>} ELSE {})
    \cup {<<"slot", s>> : s \in {r \in Slots : task_[r] = t}}
    \cup {<<"worker", s>> : s \in {r \in Slots : tmp[r] = t}}
    \cup (IF t \in destroyed THEN {<<"nobody">>} ELSE {})

\* Every task has exactly one owner across the scheduler, whatever clients,
\* runner, workers and destructor do.  (With the types of the state.)
TaskHasOneOwner == TypeOK /\ \A t \in Tasks : Cardinality(Owners(t)) = 1

\* The inner loop of startup() is left only by a shutdown, so a session hands
\* at most one task to the pool.
OneDispatchPerSession ==
    \A t, u \in Tasks :
        dispatched[t] # 0 /\ dispatched[t] = dispatched[u] => t = u

\* std::thread assignment terminates the process only when a later session
\* reuses a slot: a single startup() never does.
FirstSessionNeverTerminates == fate = "terminated" => session > 1

\* Callbacks come only for tasks that went to a slot, once each; a task taken
\* out by kill_task, dropped at shutdown or left in the queue never reports.
OnlyDispatchedReport ==
    \A t \in Tasks :
        Len(callbacks[t]) <= (IF dispatched[t] = 0 THEN 0 ELSE 1)

\* Once the destructor is through, no worker is left, every task a client gave
\* away is destroyed and every task that went to a slot has reported.
CleanAfterDestruction ==
    dtor = "gone" =>
        /\ \A s \in Slots : wpc[s] = "off"
        /\ \A t \in Tasks :
            /\ t \in fresh \cup destroyed
            /\ dispatched[t] # 0 => callbacks[t] # <<>>

\* The runner sleeps in set_task_and_run for a notification that was made
\* before it started to wait.
RunnerStuck == spc = "starting" /\ Pool!MissedNotification

InLoop == spc \notin {"out", "unpause", "unkill"}

\* After shutdown() the loop ends and startup() returns, whatever the runner
\* was doing, unless it sleeps for a missed notification.
ShutdownEndsSession ==
    (kill_ /\ InLoop) ~> (spc = "out" \/ RunnerStuck \/ ~Alive)

\* The destructor returns: every worker it joins comes to an end.
DestructorReturns == (dtor = "slots") ~> (dtor = "gone" \/ ~Alive)
=============================================================================
