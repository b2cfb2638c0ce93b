---------------------- MODULE InterruptibleTaskThread ----------------------
(***************************************************************************)
(* com::dag_scheduler::InterruptibleTaskThread, one per slot of a pool,    *)
(* together with the operations of Task it performs on the task it runs    *)
(* (iterate_stages, kill, complete).                                       *)
(*                                                                         *)
(* Two kinds of threads take steps: the callers of the member functions,   *)
(* and the worker std::thread that set_task_and_run starts on a slot.      *)
(* set_task_and_run and shutdown are called by the slot's owner (in the    *)
(* scheduler: the thread in startup(), later the one in the destructor);   *)
(* set_interrupt may come from any caller.                                 *)
(*                                                                         *)
(* task_ is read and moved by the worker without task_lock_, and the       *)
(* worker writes to locals of set_task_and_run by reference.  Where the    *)
(* code's behaviour is then undefined, the model offers the outcomes a     *)
(* build can produce: the access hits freed or null memory and the process *)
(* dies ("segfault"), or it passes unnoticed.                              *)
(***************************************************************************)
EXTENDS Naturals, Sequences

CONSTANTS
    Tasks,         \* task objects
    NoTask,        \* the null unique_ptr
    StageCount,    \* number of stages of each task
    Slots,         \* InterruptibleTaskThread objects
    Callers,       \* threads that call their member functions
    Owner,         \* the caller of set_task_and_run and shutdown
    InterruptArgs  \* values of should_interrupt that clients pass

ASSUME ThreadTaskAssumption == NoTask \notin Tasks
ASSUME StageCountAssumption == StageCount \in [Tasks -> Nat]
ASSUME OwnerAssumption == Owner \in Callers
ASSUME InterruptArgsAssumption == InterruptArgs \subseteq BOOLEAN

VARIABLES
    \* members of the slot
    task_, task_lock_, interrupt_, running_, thread_,
    \* the worker of the slot: program counter, the task iterate_stages was
    \* called on, its stage, the last status, the local tmp
    wpc, iterated, stage, status, tmp,
    \* a caller: program counter, slot, arguments (task, should_interrupt),
    \* pointer read under the lock, what follows set_interrupt.  A local is
    \* set back to its initial value when the function that has it returns
    cpc, slot, arg, flag, seen, after,
    started,       \* thread_started of set_task_and_run, FALSE when not in it
    \* task objects: Task::kill_ and the statuses its callback was called with
    killed, callbacks,
    fresh, destroyed, fate

memberVars == <<task_, task_lock_, interrupt_, running_, thread_>>
workerVars == <<wpc, iterated, stage, status, tmp>>
callerVars == <<cpc, slot, arg, flag, seen, after, started>>
taskVars == <<killed, callbacks, fresh, destroyed>>
vars == <<memberVars, workerVars, callerVars, taskVars, fate>>

Pointers == Tasks \cup {NoTask}
Alive == fate = "alive"

WorkerPCs == {"off", "start", "check", "mark", "lock", "run", "poll", "end",
              "move", "clear", "complete", "callback", "done"}
CallerPCs == {"idle", "assign", "spawn", "prewait", "wait", "woken",
              "intr", "deref", "store", "join"}

TypeOK ==
    /\ task_ \in [Slots -> Pointers]
    /\ task_lock_ \in [Slots -> Callers \cup {"free", "worker"}]
    /\ interrupt_ \in [Slots -> BOOLEAN]
    /\ running_ \in [Slots -> BOOLEAN]
    /\ thread_ \in [Slots -> {"none", "joinable"}]
    /\ wpc \in [Slots -> WorkerPCs]
    /\ iterated \in [Slots -> Pointers]
    /\ stage \in [Slots -> Nat]
    /\ status \in [Slots -> BOOLEAN]
    /\ tmp \in [Slots -> Pointers]
    /\ cpc \in [Callers -> CallerPCs]
    /\ slot \in [Callers -> Slots]
    /\ arg \in [Callers -> Pointers]
    /\ flag \in [Callers -> BOOLEAN]
    /\ seen \in [Callers -> Pointers]
    /\ after \in [Callers -> {"idle", "join"}]
    /\ started \in BOOLEAN
    /\ killed \in [Tasks -> BOOLEAN]
    /\ callbacks \in [Tasks -> Seq(BOOLEAN)]
    /\ fresh \subseteq Tasks
    /\ destroyed \subseteq Tasks
    /\ fate \in {"alive", "segfault", "terminated"}

\* The slots as their constructor leaves them, the tasks as theirs does.
ThreadInit ==
    /\ task_ = [s \in Slots |-> NoTask]
    /\ task_lock_ = [s \in Slots |-> "free"]
    /\ interrupt_ = [s \in Slots |-> FALSE]
    /\ running_ = [s \in Slots |-> FALSE]
    /\ thread_ = [s \in Slots |-> "none"]
    /\ wpc = [s \in Slots |-> "off"]
    /\ iterated = [s \in Slots |-> NoTask]
    /\ stage = [s \in Slots |-> 0]
    /\ status = [s \in Slots |-> FALSE]
    /\ tmp = [s \in Slots |-> NoTask]
    /\ cpc = [c \in Callers |-> "idle"]
    /\ \E s \in Slots : slot = [c \in Callers |-> s]
    /\ arg = [c \in Callers |-> NoTask]
    /\ flag = [c \in Callers |-> FALSE]
    /\ seen = [c \in Callers |-> NoTask]
    /\ after = [c \in Callers |-> "idle"]
    /\ started = FALSE
    /\ killed = [t \in Tasks |-> FALSE]
    /\ callbacks = [t \in Tasks |-> <<>>]

Init ==
    /\ ThreadInit
    /\ fresh = Tasks
    /\ destroyed = {}
    /\ fate = "alive"

-----------------------------------------------------------------------------
\* Callers: set_task_and_run

\* The call: the argument is moved into the parameter.
set_task_and_run(s, t) ==
    /\ Alive
    /\ cpc[Owner] = "idle"
    /\ cpc' = [cpc EXCEPT ![Owner] = "assign"]
    /\ slot' = [slot EXCEPT ![Owner] = s]
    /\ arg' = [arg EXCEPT ![Owner] = t]
    /\ UNCHANGED <<memberVars, workerVars, flag, seen, after, started, killed,
                   callbacks, destroyed, fate>>

\* Under task_lock_, task_ = std::move(task); a task the slot still owned is
\* destroyed, whether or not a worker is iterating it.
AssignTask ==
    LET s == slot[Owner] IN
    /\ Alive
    /\ cpc[Owner] = "assign"
    /\ task_lock_[s] = "free"
    /\ task_' = [task_ EXCEPT ![s] = arg[Owner]]
    /\ destroyed' = destroyed \cup ({task_[s]} \ {NoTask})
    /\ arg' = [arg EXCEPT ![Owner] = NoTask]
    /\ cpc' = [cpc EXCEPT ![Owner] = "spawn"]
    /\ UNCHANGED <<task_lock_, interrupt_, running_, thread_, workerVars, slot,
                   flag, seen, after, started, killed, callbacks, fresh, fate>>

\* thread_ = std::thread(...): assigning to a std::thread that is still
\* joinable calls std::terminate, after the new worker was started.
SpawnThread ==
    LET s == slot[Owner] IN
    /\ Alive
    /\ cpc[Owner] = "spawn"
    /\ IF thread_[s] = "joinable"
       THEN /\ fate' = "terminated"
            /\ UNCHANGED <<thread_, wpc, cpc>>
       ELSE /\ thread_' = [thread_ EXCEPT ![s] = "joinable"]
            /\ wpc' = [wpc EXCEPT ![s] = "start"]
            /\ cpc' = [cpc EXCEPT ![Owner] = "prewait"]
            /\ UNCHANGED fate
    /\ UNCHANGED <<task_, task_lock_, interrupt_, running_, iterated, stage,
                   status, tmp, slot, arg, flag, seen, after, started, taskVars>>

\* return_cond.wait(return_lock), without a predicate: it sleeps even if the
\* worker has already notified.
EnterWait ==
    /\ Alive
    /\ cpc[Owner] = "prewait"
    /\ cpc' = [cpc EXCEPT ![Owner] = "wait"]
    /\ UNCHANGED <<memberVars, workerVars, slot, arg, flag, seen, after, started,
                   taskVars, fate>>

SpuriousReturn ==
    /\ Alive
    /\ cpc[Owner] = "wait"
    /\ cpc' = [cpc EXCEPT ![Owner] = "woken"]
    /\ UNCHANGED <<memberVars, workerVars, slot, arg, flag, seen, after, started,
                   taskVars, fate>>

ReturnStarted ==
    /\ Alive
    /\ cpc[Owner] = "woken"
    /\ cpc' = [cpc EXCEPT ![Owner] = "idle"]
    /\ started' = FALSE
    /\ UNCHANGED <<memberVars, workerVars, slot, arg, flag, seen, after,
                   taskVars, fate>>

-----------------------------------------------------------------------------
\* Callers: set_interrupt and shutdown

set_interrupt(c, s, should_interrupt) ==
    /\ Alive
    /\ cpc[c] = "idle"
    /\ cpc' = [cpc EXCEPT ![c] = "intr"]
    /\ slot' = [slot EXCEPT ![c] = s]
    /\ flag' = [flag EXCEPT ![c] = should_interrupt]
    /\ UNCHANGED <<memberVars, workerVars, arg, seen, after, started, taskVars, fate>>

\* task_lock_ is taken and task_ tested.
TestTask(c) ==
    LET s == slot[c] IN
    /\ Alive
    /\ cpc[c] = "intr"
    /\ task_lock_[s] = "free"
    /\ seen' = [seen EXCEPT ![c] = task_[s]]
    /\ IF task_[s] = NoTask
       THEN /\ cpc' = [cpc EXCEPT ![c] = "store"]
            /\ UNCHANGED task_lock_
       ELSE /\ cpc' = [cpc EXCEPT ![c] = "deref"]
            /\ task_lock_' = [task_lock_ EXCEPT ![s] = c]
    /\ UNCHANGED <<task_, interrupt_, running_, thread_, workerVars, slot, arg,
                   flag, after, started, taskVars, fate>>

\* Mutant of KillTask: returns without releasing task_lock_.
KillTaskHoldingLock(c) ==
    LET s == slot[c] IN
    /\ Alive
    /\ cpc[c] = "deref"
    /\ seen[c] # NoTask /\ seen[c] \notin destroyed
    /\ killed' = [killed EXCEPT ![seen[c]] = TRUE]
    /\ cpc' = [cpc EXCEPT ![c] = "store"]
    /\ seen' = [seen EXCEPT ![c] = NoTask]
    /\ UNCHANGED <<memberVars, workerVars, slot, arg, flag, after, started,
                   callbacks, fresh, destroyed, fate>>

\* task_->kill().  The worker moves task_ away without the lock, so the
\* pointer may have changed since the test: a build dereferences either the
\* value it tested or the one it loads again.
KillTask(c) ==
    LET s == slot[c] IN
    /\ Alive
    /\ cpc[c] = "deref"
    /\ \E p \in {seen[c], task_[s]} :
        \/ /\ p = NoTask \/ p \in destroyed
           /\ fate' = "segfault"
           /\ UNCHANGED <<killed, cpc, task_lock_, seen>>
        \/ /\ p # NoTask
           /\ killed' = IF p \in destroyed THEN killed
                                           ELSE [killed EXCEPT ![p] = TRUE]
           /\ cpc' = [cpc EXCEPT ![c] = "store"]
           /\ task_lock_' = [task_lock_ EXCEPT ![s] = "free"]
           /\ seen' = [seen EXCEPT ![c] = NoTask]
           /\ UNCHANGED fate
    /\ UNCHANGED <<task_, interrupt_, running_, thread_, workerVars, slot, arg,
                   flag, after, started, callbacks, fresh, destroyed>>

\* interrupt_.store(should_interrupt), after the lock was released.
StoreInterrupt(c) ==
    /\ Alive
    /\ cpc[c] = "store"
    /\ interrupt_' = [interrupt_ EXCEPT ![slot[c]] = flag[c]]
    /\ cpc' = [cpc EXCEPT ![c] = after[c]]
    /\ flag' = [flag EXCEPT ![c] = FALSE]
    /\ after' = [after EXCEPT ![c] = "idle"]
    /\ UNCHANGED <<task_, task_lock_, running_, thread_, workerVars, slot, arg,
                   seen, started, taskVars, fate>>

\* shutdown: interrupt only what is marked running at this moment.
shutdown(s) ==
    /\ Alive
    /\ cpc[Owner] = "idle"
    /\ slot' = [slot EXCEPT ![Owner] = s]
    /\ IF running_[s]
       THEN /\ cpc' = [cpc EXCEPT ![Owner] = "intr"]
            /\ flag' = [flag EXCEPT ![Owner] = TRUE]
            /\ after' = [after EXCEPT ![Owner] = "join"]
       ELSE /\ cpc' = [cpc EXCEPT ![Owner] = "join"]
            /\ UNCHANGED <<flag, after>>
    /\ UNCHANGED <<memberVars, workerVars, arg, seen, started, taskVars, fate>>

\* Mutant of Join: the thread is detached, not joined.
JoinDetaching ==
    LET s == slot[Owner] IN
    /\ Alive
    /\ cpc[Owner] = "join"
    /\ cpc' = [cpc EXCEPT ![Owner] = "idle"]
    /\ thread_' = [thread_ EXCEPT ![s] = "none"]
    /\ UNCHANGED <<task_, task_lock_, interrupt_, running_, workerVars, slot,
                   arg, flag, seen, after, started, taskVars, fate>>

Join ==
    LET s == slot[Owner] IN
    /\ Alive
    /\ cpc[Owner] = "join"
    /\ cpc' = [cpc EXCEPT ![Owner] = "idle"]
    /\ \/ /\ thread_[s] = "joinable" /\ wpc[s] = "done"
          /\ thread_' = [thread_ EXCEPT ![s] = "none"]
          /\ wpc' = [wpc EXCEPT ![s] = "off"]
       \/ /\ thread_[s] = "none"
          /\ UNCHANGED <<thread_, wpc>>
    /\ UNCHANGED <<task_, task_lock_, interrupt_, running_, iterated, stage,
                   status, tmp, slot, arg, flag, seen, after, started, taskVars, fate>>

-----------------------------------------------------------------------------
\* The worker

\* The frame of the set_task_and_run that started the worker of s exists.
FrameAlive(s) ==
    slot[Owner] = s /\ cpc[Owner] \in {"prewait", "wait", "woken"}

\* thread_started = true; return_cond.notify_one().  The notification is not
\* made under return_mutex and reaches only a caller that already waits.
Notify(s) ==
    /\ Alive
    /\ wpc[s] = "start"
    /\ \/ /\ FrameAlive(s)
          /\ started' = TRUE
          /\ cpc' = IF cpc[Owner] = "wait"
                    THEN [cpc EXCEPT ![Owner] = "woken"] ELSE cpc
          /\ wpc' = [wpc EXCEPT ![s] = "check"]
          /\ UNCHANGED fate
       \/ /\ ~FrameAlive(s)
          /\ \/ wpc' = [wpc EXCEPT ![s] = "check"] /\ UNCHANGED fate
             \/ fate' = "segfault" /\ UNCHANGED wpc
          /\ UNCHANGED <<started, cpc>>
    /\ UNCHANGED <<memberVars, iterated, stage, status, tmp, slot, arg, flag, seen,
                   after, taskVars>>

\* Mutant of CheckTask: a slot that was interrupted before skips its task.
CheckTaskInterrupted(s) ==
    /\ Alive
    /\ wpc[s] = "check"
    /\ wpc' = [wpc EXCEPT ![s] =
                  IF task_[s] # NoTask /\ ~interrupt_[s] THEN "mark" ELSE "done"]
    /\ UNCHANGED <<memberVars, iterated, stage, status, tmp, callerVars,
                   taskVars, fate>>

CheckTask(s) ==
    /\ Alive
    /\ wpc[s] = "check"
    /\ wpc' = [wpc EXCEPT ![s] = IF task_[s] # NoTask THEN "mark" ELSE "done"]
    /\ UNCHANGED <<memberVars, iterated, stage, status, tmp, callerVars,
                   taskVars, fate>>

\* running_.store(true); task_->iterate_stages(...).  std::all_of over no
\* stages is true.
MarkRunning(s) ==
    /\ Alive
    /\ wpc[s] = "mark"
    /\ running_' = [running_ EXCEPT ![s] = TRUE]
    /\ IF task_[s] = NoTask
       THEN /\ fate' = "segfault"
            /\ UNCHANGED workerVars
       ELSE /\ iterated' = [iterated EXCEPT ![s] = task_[s]]
            /\ stage' = [stage EXCEPT ![s] = 1]
            /\ status' = [status EXCEPT ![s] = StageCount[task_[s]] = 0]
            /\ wpc' = [wpc EXCEPT ![s] =
                          IF StageCount[task_[s]] = 0 THEN "move" ELSE "lock"]
            /\ UNCHANGED <<tmp, fate>>
    /\ UNCHANGED <<task_, task_lock_, interrupt_, thread_, callerVars, taskVars>>

LockForStage(s) ==
    /\ Alive
    /\ wpc[s] = "lock"
    /\ task_lock_[s] = "free"
    /\ task_lock_' = [task_lock_ EXCEPT ![s] = "worker"]
    /\ wpc' = [wpc EXCEPT ![s] = "run"]
    /\ UNCHANGED <<task_, interrupt_, running_, thread_, iterated, stage,
                   status, tmp, callerVars, taskVars, fate>>

\* Mutant of RunStage: a stage that fails leaves task_lock_ taken.
RunStageHoldingLock(s) ==
    /\ Alive
    /\ wpc[s] = "run"
    /\ \E stage_status \in BOOLEAN :
        /\ status' = [status EXCEPT ![s] = stage_status]
        /\ task_lock_' = IF stage_status THEN [task_lock_ EXCEPT ![s] = "free"]
                                         ELSE task_lock_
    /\ wpc' = [wpc EXCEPT ![s] = "poll"]
    /\ UNCHANGED <<task_, interrupt_, running_, thread_, iterated, stage, tmp,
                   callerVars, taskVars, fate>>

\* next.run() returns stage_status and the lock is released.
RunStage(s) ==
    /\ Alive
    /\ wpc[s] = "run"
    /\ \E stage_status \in BOOLEAN : status' = [status EXCEPT ![s] = stage_status]
    /\ task_lock_' = [task_lock_ EXCEPT ![s] = "free"]
    /\ wpc' = [wpc EXCEPT ![s] = "poll"]
    /\ UNCHANGED <<task_, interrupt_, running_, thread_, iterated, stage, tmp,
                   callerVars, taskVars, fate>>

PollInterrupt(s) ==
    /\ Alive
    /\ wpc[s] = "poll"
    /\ status' = [status EXCEPT ![s] = status[s] /\ ~interrupt_[s]]
    /\ wpc' = [wpc EXCEPT ![s] = "end"]
    /\ UNCHANGED <<memberVars, iterated, stage, tmp, callerVars, taskVars, fate>>

\* Mutant of StageContinues: kill_ is not read.
StageContinuesKilled(s, ended) == status[s] /\ ended

\* The predicate of all_of: cleanup(), then ran && end() && not kill_.
StageContinues(s, ended) == status[s] /\ ended /\ ~killed[iterated[s]]

EndStage(s) ==
    /\ Alive
    /\ wpc[s] = "end"
    /\ \E ended \in BOOLEAN :
        LET ret == StageContinues(s, ended)
            more == ret /\ stage[s] < StageCount[iterated[s]]
        IN  /\ status' = [status EXCEPT ![s] = ret]
            /\ stage' = [stage EXCEPT ![s] = IF more THEN @ + 1 ELSE @]
            /\ wpc' = [wpc EXCEPT ![s] = IF more THEN "lock" ELSE "move"]
    /\ UNCHANGED <<memberVars, iterated, tmp, callerVars, taskVars, fate>>

\* The task under iteration was destroyed by a new set_task_and_run.
UseAfterFree(s) ==
    /\ Alive
    /\ wpc[s] \in {"lock", "run", "end"} /\ iterated[s] \in destroyed
    /\ fate' = "segfault"
    /\ UNCHANGED <<memberVars, workerVars, callerVars, taskVars>>

\* tmp = std::move(task_); task_.reset(): task_lock_ is not taken.
MoveTask(s) ==
    /\ Alive
    /\ wpc[s] = "move"
    /\ tmp' = [tmp EXCEPT ![s] = task_[s]]
    /\ task_' = [task_ EXCEPT ![s] = NoTask]
    /\ wpc' = [wpc EXCEPT ![s] = "clear"]
    /\ UNCHANGED <<task_lock_, interrupt_, running_, thread_, iterated, stage,
                   status, callerVars, taskVars, fate>>

\* Mutant of ClearRunning: running_ is not reset before the callback.
ClearRunningLate(s) ==
    /\ Alive
    /\ wpc[s] = "clear"
    /\ wpc' = [wpc EXCEPT ![s] = "complete"]
    /\ UNCHANGED <<memberVars, iterated, stage, status, tmp, callerVars,
                   taskVars, fate>>

ClearRunning(s) ==
    /\ Alive
    /\ wpc[s] = "clear"
    /\ running_' = [running_ EXCEPT ![s] = FALSE]
    /\ wpc' = [wpc EXCEPT ![s] = "complete"]
    /\ UNCHANGED <<task_, task_lock_, interrupt_, thread_, iterated, stage,
                   status, tmp, callerVars, taskVars, fate>>

\* tmp->complete(all_ran) enters the user's callback ...
complete(s) ==
    /\ Alive
    /\ wpc[s] = "complete"
    /\ IF tmp[s] = NoTask
       THEN fate' = "segfault" /\ UNCHANGED <<wpc, callbacks>>
       ELSE /\ callbacks' = [callbacks EXCEPT ![tmp[s]] = Append(@, status[s])]
            /\ wpc' = [wpc EXCEPT ![s] = "callback"]
            /\ UNCHANGED fate
    /\ UNCHANGED <<memberVars, iterated, stage, status, tmp, callerVars, killed,
                   fresh, destroyed>>

\* Mutant of FinishWorker: the destructor of a task reports failure.
FinishWorkerReporting(s) ==
    /\ Alive
    /\ wpc[s] = "callback"
    /\ wpc' = [wpc EXCEPT ![s] = "done"]
    /\ callbacks' = [callbacks EXCEPT ![tmp[s]] = Append(@, FALSE)]
    /\ destroyed' = destroyed \cup {tmp[s]}
    /\ tmp' = [tmp EXCEPT ![s] = NoTask]
    /\ iterated' = [iterated EXCEPT ![s] = NoTask]
    /\ stage' = [stage EXCEPT ![s] = 0]
    /\ status' = [status EXCEPT ![s] = FALSE]
    /\ UNCHANGED <<memberVars, callerVars, killed, fresh, fate>>

\* ... which returns; tmp goes out of scope and the thread function ends.
FinishWorker(s) ==
    /\ Alive
    /\ wpc[s] = "callback"
    /\ wpc' = [wpc EXCEPT ![s] = "done"]
    /\ destroyed' = destroyed \cup {tmp[s]}
    /\ tmp' = [tmp EXCEPT ![s] = NoTask]
    /\ iterated' = [iterated EXCEPT ![s] = NoTask]
    /\ stage' = [stage EXCEPT ![s] = 0]
    /\ status' = [status EXCEPT ![s] = FALSE]
    /\ UNCHANGED <<memberVars, callerVars, killed, callbacks, fresh, fate>>

-----------------------------------------------------------------------------
CallerStep(c) == TestTask(c) \/ KillTask(c) \/ StoreInterrupt(c)

\* Steps of a pending set_task_and_run or shutdown of the owner.
OwnerStep == AssignTask \/ SpawnThread \/ EnterWait \/ ReturnStarted \/ Join

WorkerProgress(s) ==
    \/ Notify(s) \/ CheckTask(s) \/ MarkRunning(s) \/ RunStage(s)
    \/ PollInterrupt(s) \/ EndStage(s) \/ MoveTask(s) \/ ClearRunning(s)
    \/ complete(s) \/ FinishWorker(s)

ThreadStep ==
    \/ OwnerStep
    \/ SpuriousReturn
    \/ \E c \in Callers : CallerStep(c)
    \/ \E s \in Slots : WorkerProgress(s) \/ LockForStage(s) \/ UseAfterFree(s)

ClientCall ==
    \/ \E s \in Slots, t \in fresh \cup {NoTask} :
        set_task_and_run(s, t) /\ fresh' = fresh \ {t}
    \/ \E s \in Slots : shutdown(s)
    \/ \E c \in Callers, s \in Slots, b \in InterruptArgs : set_interrupt(c, s, b)

Next == ThreadStep \/ ClientCall

Spec == Init /\ [][Next]_vars

\* Threads are scheduled, stages and callbacks return.  A worker that wants
\* task_lock_ gets it although set_interrupt keeps taking it: strong fairness.
\* No fairness for client calls, spurious wakeups or undefined behaviour.
Fairness ==
    /\ WF_vars(OwnerStep)
    /\ \A c \in Callers : WF_vars(CallerStep(c))
    /\ \A s \in Slots : WF_vars(WorkerProgress(s)) /\ SF_vars(LockForStage(s))

FairSpec == Spec /\ Fairness

-----------------------------------------------------------------------------
\* A task's completion callback is called at most once, and never for a task
\* that is still with its client.
CompletedOnce ==
    \A t \in Tasks :
        /\ Len(callbacks[t]) <= 1
        /\ t \in fresh => callbacks[t] = <<>>

\* While the callback runs, the slot already looks unused: running_ is false
\* and task_ is null, unless the owner is assigning the next task to it
\* (test/test_interruptible_task_thread.cxx:61-63 checks this in the callback).
CallbackSeesIdleSlot ==
    \A s \in Slots :
        wpc[s] \in {"complete", "callback"} =>
            /\ ~running_[s]
            /\ \/ task_[s] = NoTask
               \/ slot[Owner] = s /\ cpc[Owner] = "spawn"

\* task t is inside iterate_stages
Iterating(t) ==
    \E s \in Slots :
        wpc[s] \in {"lock", "run", "poll", "end"} /\ iterated[s] = t

\* A task killed while its stages are iterated never reports success, even if
\* all of them run: the kill is seen at the next stage boundary at the latest.
KillPreventsSuccess ==
    \A t \in Tasks :
        [](killed[t] /\ Iterating(t) => [](callbacks[t] # <<TRUE>>))

\* Work handed to a started worker is reported: the callback comes, unless
\* the process dies first.
StartedTaskReported ==
    \A s \in Slots, t \in Tasks :
        (task_[s] = t /\ wpc[s] = "check")
            ~> (callbacks[t] # <<>> \/ ~Alive)

\* shutdown() returns: the worker it joins ends, whatever it was doing when
\* running_ was read.
ShutdownReturns ==
    (cpc[Owner] \in {"intr", "deref", "store", "join"})
        ~> (cpc[Owner] = "idle" \/ ~Alive)

\* The worker's notification came before the wait: nobody will wake the owner.
MissedNotification ==
    cpc[Owner] = "wait" /\ wpc[slot[Owner]] # "start"

\* set_task_and_run returns, or it has missed the only notification it gets.
StartReturnsOrMissed ==
    (cpc[Owner] \in {"assign", "spawn", "prewait", "wait"})
        ~> (cpc[Owner] \in {"woken", "idle"} \/ MissedNotification \/ ~Alive)

-----------------------------------------------------------------------------
\* What the tests expect and the code does not guarantee.

\* set_task_and_run returns (test/test_interruptible_task_thread.cxx:71).
StartReturns ==
    (cpc[Owner] = "prewait") ~> (cpc[Owner] \in {"woken", "idle"} \/ ~Alive)
=============================================================================
