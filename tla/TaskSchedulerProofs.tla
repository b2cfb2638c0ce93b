------------------------- MODULE TaskSchedulerProofs -------------------------
(***************************************************************************)
(* Theorems about TaskScheduler, for any number of tasks, clients, slots   *)
(* and sessions: a session of startup() hands at most one task to the      *)
(* pool, and the first session never assigns to a joinable std::thread;    *)
(* every task has one owner across the queue, the runner, the pool and the *)
(* clients; only dispatched tasks report; the destructor leaves nothing.   *)
(*                                                                         *)
(* The last three rest on the invariants proved for the two components:    *)
(* the scheduler is seen once as its queue and once as its pool, each time *)
(* with what the other side owns folded into a variable of the component.  *)
(***************************************************************************)
EXTENDS TaskScheduler, FiniteSetTheorems, TLAPS

InnerLoop == {"inner", "innerpause", "scan", "recheck", "dispatch", "starting"}
Starting == {"assign", "spawn"}

\* Where the runner can be after a dispatch of the present session: it has no
\* task, and is in the inner loop or on its way out of startup().
AfterDispatch ==
    /\ held[Runner] = NoTask
    /\ spc \in InnerLoop \/ spc = "out" \/ (spc = "outer" /\ kill_)

\* The part of the type invariant the argument needs.
LoopTypes ==
    /\ session \in Nat
    /\ dispatched \in [Tasks -> Nat]
    /\ unused_index \in Slots
    /\ doomed \in 0..PoolSize
    /\ DOMAIN held = Clients \cup {Runner}
    /\ DOMAIN call = Clients \cup {Runner}
    /\ DOMAIN cpc = {Runner} /\ DOMAIN slot = {Runner} /\ DOMAIN after = {Runner}
    /\ DOMAIN thread_ = Slots
    /\ slot[Runner] \in Slots
    /\ after[Runner] \in {"idle", "join"}

\* Sessions are dispatched to in order, one task each.
DispatchHistory ==
    /\ \A t \in Tasks : dispatched[t] <= session
    /\ (session # 0 /\ \E t \in Tasks : dispatched[t] = session) => AfterDispatch
    /\ OneDispatchPerSession

\* How the program counters of the runner's calls agree.
RunnerCalls ==
    /\ call[Runner] # "idle" => spc = "popping"
    /\ cpc[Runner] \in Starting => spc = "starting"
    /\ spc = "starting" => held[Runner] = NoTask

\* Until the first dispatch no slot has a thread; from then on the first
\* session does not start another one.
FirstSession ==
    /\ session = 0 => /\ spc = "out"
                      /\ \A s \in Slots : thread_[s] = "none"
    /\ session <= 1 /\ (\E s \in Slots : thread_[s] # "none")
            => AfterDispatch /\ cpc[Runner] \notin Starting
    /\ FirstSessionNeverTerminates

LoopInv == LoopTypes /\ DispatchHistory /\ RunnerCalls /\ FirstSession

\* What LoopInv speaks about.
loopState == <<held, call, spc, kill_, session, dispatched, unused_index, doomed,
               cpc, slot, after, thread_, fate>>

-----------------------------------------------------------------------------
\* A step that leaves the relevant state alone preserves the invariant.
LEMMA FrameStep == ASSUME LoopInv, UNCHANGED loopState PROVE LoopInv'
  BY DEF LoopInv, LoopTypes, DispatchHistory, RunnerCalls, FirstSession,
         AfterDispatch, OneDispatchPerSession, FirstSessionNeverTerminates, loopState

LEMMA InitHolds == ASSUME Init PROVE LoopInv
<1>1. LoopTypes
  BY PoolAssumption
     DEF Init, Queue!Init, Pool!ThreadInit, LoopTypes, Slots
<1>2. DispatchHistory
  BY <1>1 DEF Init, DispatchHistory, OneDispatchPerSession, LoopTypes
<1>3. RunnerCalls
  BY DEF Init, Queue!Init, Pool!ThreadInit, RunnerCalls, Starting
<1>4. FirstSession
  BY DEF Init, Queue!Init, Pool!ThreadInit, FirstSession,
         FirstSessionNeverTerminates
<1> QED
  BY <1>1, <1>2, <1>3, <1>4 DEF LoopInv

-----------------------------------------------------------------------------
\* Steps of the runner.

LEMMA StartupStep == ASSUME LoopInv, startup PROVE LoopInv'
  BY DEF startup, Go, queueVars, poolVars, dtorVars, LoopInv, LoopTypes,
         DispatchHistory, RunnerCalls, FirstSession, AfterDispatch, InnerLoop,
         Starting, OneDispatchPerSession, FirstSessionNeverTerminates

LEMMA StoreStep == ASSUME LoopInv, StoreUnpaused \/ StoreUnkilled PROVE LoopInv'
  BY DEF StoreUnpaused, StoreUnkilled, Go, queueVars, poolVars, dtorVars, LoopInv,
         LoopTypes, DispatchHistory, RunnerCalls, FirstSession, AfterDispatch,
         InnerLoop, Starting, OneDispatchPerSession, FirstSessionNeverTerminates

LEMMA LoadStepHolds == ASSUME LoopInv, LoadStep PROVE LoopInv'
<1>1. unused_index' \in Slots
  BY PoolAssumption DEF LoadStep, LoopInv, LoopTypes, Slots
<1> QED
  BY <1>1
     DEF LoadStep, Go, queueVars, poolVars, dtorVars, LoopInv, LoopTypes,
         DispatchHistory, RunnerCalls, FirstSession, AfterDispatch, InnerLoop,
         Starting, OneDispatchPerSession, FirstSessionNeverTerminates

LEMMA PopStep == ASSUME LoopInv, CallPop \/ PopReturns PROVE LoopInv'
<1>1. CASE CallPop
  BY <1>1
     DEF CallPop, Go, Queue!wait_for_and_pop, Queue!StartWait, Queue!PopInto,
         Queue!waitVars, poolVars, dtorVars, LoopInv, LoopTypes, DispatchHistory,
         RunnerCalls, FirstSession, AfterDispatch, InnerLoop, Starting,
         OneDispatchPerSession, FirstSessionNeverTerminates
<1>2. CASE PopReturns
  BY <1>2
     DEF PopReturns, Go, queueVars, poolVars, dtorVars, LoopInv, LoopTypes,
         DispatchHistory, RunnerCalls, FirstSession, AfterDispatch, InnerLoop,
         Starting, OneDispatchPerSession, FirstSessionNeverTerminates
<1> QED
  BY <1>1, <1>2

LEMMA AbandonStep == ASSUME LoopInv, AbandonTask PROVE LoopInv'
  BY DEF AbandonTask, Go, poolVars, dtorVars, LoopInv, LoopTypes, DispatchHistory,
         RunnerCalls, FirstSession, AfterDispatch, InnerLoop, Starting,
         OneDispatchPerSession, FirstSessionNeverTerminates

LEMMA ScanStep == ASSUME LoopInv, ScanSlot PROVE LoopInv'
<1>1. unused_index' \in Slots
  BY PoolAssumption DEF ScanSlot, Go, LoopInv, LoopTypes, Slots
<1> QED
  BY <1>1
     DEF ScanSlot, Go, queueVars, poolVars, dtorVars, LoopInv, LoopTypes,
         DispatchHistory, RunnerCalls, FirstSession, AfterDispatch, InnerLoop,
         Starting, OneDispatchPerSession, FirstSessionNeverTerminates

\* A dispatch finds that the session has dispatched nothing yet, since the
\* runner has a task.
LEMMA DispatchStep == ASSUME LoopInv, Dispatch PROVE LoopInv'
<1>1. CASE next_task = NoTask
  BY <1>1
     DEF Dispatch, Go, poolVars, dtorVars, LoopInv, LoopTypes, DispatchHistory,
         RunnerCalls, FirstSession, AfterDispatch, InnerLoop, Starting,
         OneDispatchPerSession, FirstSessionNeverTerminates
<1>2. CASE next_task # NoTask
  <2>1. /\ spc = "dispatch" /\ spc' = "starting"
        /\ dispatched' = [dispatched EXCEPT ![next_task] = session]
        /\ held' = [held EXCEPT ![Runner] = NoTask]
        /\ cpc' = [cpc EXCEPT ![Runner] = "assign"]
        /\ slot' = [slot EXCEPT ![Runner] = unused_index]
        /\ UNCHANGED <<call, kill_, session, unused_index, doomed, after,
                       thread_, fate>>
    BY <1>2 DEF Dispatch, Go, Pool!set_task_and_run, Pool!memberVars, dtorVars
  <2>2. \A t \in Tasks : session # 0 => dispatched[t] # session
    BY <1>2 DEF LoopInv, DispatchHistory, AfterDispatch, next_task
  <2>3. LoopTypes'
    BY <2>1 DEF LoopInv, LoopTypes
  <2>4. held'[Runner] = NoTask
    BY <2>1 DEF LoopInv, LoopTypes
  <2>5. DispatchHistory'
    <3>1. \A t \in Tasks : dispatched'[t] = IF t = next_task THEN session
                                                             ELSE dispatched[t]
      BY <2>1 DEF LoopInv, LoopTypes
    <3>2. \A t \in Tasks : dispatched'[t] <= session'
      BY <2>1, <3>1 DEF LoopInv, LoopTypes, DispatchHistory
    <3>3. AfterDispatch'
      BY <2>1, <2>4 DEF AfterDispatch, InnerLoop
    <3>4. OneDispatchPerSession'
      BY <2>2, <3>1 DEF LoopInv, DispatchHistory, OneDispatchPerSession
    <3> QED
      BY <3>2, <3>3, <3>4 DEF DispatchHistory
  <2>6. RunnerCalls'
    BY <2>1, <2>4 DEF LoopInv, RunnerCalls
  <2>7. FirstSession'
    BY <1>2, <2>1
       DEF LoopInv, FirstSession, AfterDispatch, next_task,
           FirstSessionNeverTerminates
  <2> QED
    BY <2>3, <2>5, <2>6, <2>7 DEF LoopInv
<1> QED
  BY <1>1, <1>2

LEMMA StartReturnedStep == ASSUME LoopInv, StartReturned PROVE LoopInv'
  BY DEF StartReturned, Go, queueVars, poolVars, dtorVars, LoopInv, LoopTypes,
         DispatchHistory, RunnerCalls, FirstSession, AfterDispatch, InnerLoop,
         Starting, OneDispatchPerSession, FirstSessionNeverTerminates

-----------------------------------------------------------------------------
\* Steps of clients and of the queue.

LEMMA ClientHolds ==
    ASSUME LoopInv, ClientCall \/ \E c \in Clients : ClientStep(c)
    PROVE  LoopInv'
<1>1. CASE \E t \in Tasks \cup {NoTask} : queue_task(t)
  BY <1>1
     DEF queue_task, Queue!push, Queue!NotifyAll, poolVars, schedVars, loopVars,
         dtorVars, LoopInv, LoopTypes, DispatchHistory, RunnerCalls, FirstSession,
         AfterDispatch, OneDispatchPerSession, FirstSessionNeverTerminates
<1>2. ASSUME NEW c \in Clients, NEW u \in UUIDs, kill_task(c, u)
      PROVE  LoopInv'
  <2>1. /\ DOMAIN held' = DOMAIN held /\ held'[Runner] = held[Runner]
        /\ fate' \in {fate, "segfault"}
    BY <1>2, RunnerAssumption
       DEF kill_task, Queue!remove_task_from_queue, Queue!MoveMatches, LoopInv,
           LoopTypes
  <2>2. UNCHANGED <<call, spc, kill_, session, dispatched, unused_index, doomed,
                    cpc, slot, after, thread_>>
    BY <1>2 DEF kill_task, Queue!remove_task_from_queue, Queue!waitVars, poolVars,
                loopVars, dtorVars
  <2> QED
    BY <2>1, <2>2
       DEF LoopInv, LoopTypes, DispatchHistory, RunnerCalls, FirstSession,
           AfterDispatch, OneDispatchPerSession, FirstSessionNeverTerminates
<1>3. ASSUME NEW c \in Clients, pause(c) \/ resume(c) \/ shutdown(c)
      PROVE  LoopInv'
  BY <1>3, FrameStep
     DEF pause, resume, shutdown, queueVars, poolVars, loopVars, dtorVars, loopState
<1>4. ASSUME NEW c \in Clients, ShutdownStoresKill(c)
      PROVE  LoopInv'
  BY <1>4
     DEF ShutdownStoresKill, queueVars, poolVars, loopVars, dtorVars, LoopInv,
         LoopTypes, DispatchHistory, RunnerCalls, FirstSession, AfterDispatch,
         OneDispatchPerSession, FirstSessionNeverTerminates
<1>5. ASSUME NEW c \in Clients, KillTaskReturns(c)
      PROVE  LoopInv'
  <2>1. DOMAIN held' = DOMAIN held /\ held'[Runner] = held[Runner]
    BY <1>5, RunnerAssumption
       DEF KillTaskReturns, Queue!Release, queueVars, LoopInv, LoopTypes
  <2>2. UNCHANGED <<call, spc, kill_, session, dispatched, unused_index, doomed,
                    cpc, slot, after, thread_, fate>>
    BY <1>5 DEF KillTaskReturns, Queue!Release, Queue!waitVars, queueVars, poolVars,
                loopVars, dtorVars
  <2> QED
    BY <2>1, <2>2
       DEF LoopInv, LoopTypes, DispatchHistory, RunnerCalls, FirstSession,
           AfterDispatch, OneDispatchPerSession, FirstSessionNeverTerminates
<1> QED
  BY <1>1, <1>2, <1>3, <1>4, <1>5 DEF ClientCall, ClientStep

LEMMA QueueHolds == ASSUME LoopInv, QueueStep PROVE LoopInv'
  BY DEF QueueStep, Queue!Expire, Queue!SpuriousWakeup, Queue!Recheck,
         Queue!PopInto, poolVars, schedVars, loopVars, dtorVars, LoopInv, LoopTypes,
         DispatchHistory, RunnerCalls, FirstSession, AfterDispatch, InnerLoop,
         Starting, OneDispatchPerSession, FirstSessionNeverTerminates

-----------------------------------------------------------------------------
\* Steps of the pool: only SpawnThread makes a thread, and only it can
\* terminate the process.

\* What every other step of the pool does to the relevant state.
QuietPoolStep ==
    /\ DOMAIN cpc' = {Runner} /\ DOMAIN slot' = {Runner} /\ DOMAIN after' = {Runner}
    /\ cpc'[Runner] \in Starting => cpc[Runner] \in Starting
    /\ slot'[Runner] \in Slots
    /\ after'[Runner] \in {"idle", "join"}
    /\ DOMAIN thread_' = Slots
    /\ \A s \in Slots : thread_'[s] # "none" => thread_[s] # "none"
    /\ fate' = "terminated" => fate = "terminated"

LEMMA QuietPoolHolds ==
    ASSUME LoopInv, QuietPoolStep, UNCHANGED <<queueVars, schedVars>>
    PROVE  LoopInv'
  BY DEF QuietPoolStep, queueVars, schedVars, loopVars, dtorVars, LoopInv, LoopTypes,
         DispatchHistory, RunnerCalls, FirstSession, AfterDispatch,
         OneDispatchPerSession, FirstSessionNeverTerminates

LEMMA SpawnHolds ==
    ASSUME LoopInv, Pool!SpawnThread, UNCHANGED <<queueVars, schedVars>>
    PROVE  LoopInv'
<1>1. /\ cpc[Runner] = "spawn" /\ spc = "starting" /\ held[Runner] = NoTask
      /\ slot[Runner] \in Slots /\ cpc[Runner] \in Starting
  BY DEF Pool!SpawnThread, LoopInv, LoopTypes, RunnerCalls, Starting
<1>2. session <= 1 => /\ \A s \in Slots : thread_[s] = "none"
                      /\ fate' = fate
                      /\ cpc' = [cpc EXCEPT ![Runner] = "prewait"]
  BY <1>1 DEF Pool!SpawnThread, LoopInv, FirstSession
<1>3. AfterDispatch /\ AfterDispatch'
  BY <1>1 DEF AfterDispatch, InnerLoop, queueVars, schedVars, loopVars
<1>4. cpc'[Runner] \in {"spawn", "prewait"} /\ DOMAIN cpc' = {Runner}
  BY <1>1 DEF Pool!SpawnThread, LoopInv, LoopTypes
<1>5. UNCHANGED <<slot, after, held, call, spc, kill_, session, dispatched,
                  unused_index, doomed>>
  BY DEF Pool!SpawnThread, queueVars, schedVars, loopVars, dtorVars
<1>6. LoopTypes'
  BY <1>4, <1>5 DEF Pool!SpawnThread, LoopInv, LoopTypes
<1>7. DispatchHistory' /\ RunnerCalls'
  BY <1>1, <1>3, <1>5
     DEF LoopInv, DispatchHistory, RunnerCalls, OneDispatchPerSession
<1>8. FirstSession'
  <2>1. session # 0
    BY <1>1 DEF LoopInv, FirstSession
  <2>2. session <= 1 => cpc'[Runner] \notin Starting
    BY <1>2 DEF LoopInv, LoopTypes, Starting
  <2>3. FirstSessionNeverTerminates'
    BY <1>2, <1>5 DEF LoopInv, LoopTypes, FirstSession, FirstSessionNeverTerminates
  <2> QED
    BY <1>3, <1>5, <2>1, <2>2, <2>3 DEF FirstSession
<1> QED
  BY <1>6, <1>7, <1>8 DEF LoopInv

LEMMA OwnerQuiet ==
    ASSUME LoopInv,
           \/ Pool!AssignTask \/ Pool!EnterWait \/ Pool!ReturnStarted \/ Pool!Join
           \/ Pool!SpuriousReturn
    PROVE  QuietPoolStep
<1>1. CASE Pool!AssignTask
  BY <1>1 DEF Pool!AssignTask, QuietPoolStep, LoopInv, LoopTypes, Starting
<1>2. CASE Pool!EnterWait \/ Pool!ReturnStarted \/ Pool!SpuriousReturn
  BY <1>2 DEF Pool!EnterWait, Pool!ReturnStarted, Pool!SpuriousReturn,
              Pool!memberVars, QuietPoolStep, LoopInv, LoopTypes, Starting
<1>3. CASE Pool!Join
  BY <1>3 DEF Pool!Join, QuietPoolStep, LoopInv, LoopTypes, Starting
<1> QED
  BY <1>1, <1>2, <1>3

LEMMA CallerQuiet ==
    ASSUME LoopInv, Pool!CallerStep(Runner)
    PROVE  QuietPoolStep
<1>1. CASE Pool!TestTask(Runner)
  BY <1>1 DEF Pool!TestTask, QuietPoolStep, LoopInv, LoopTypes, Starting
<1>2. CASE Pool!KillTask(Runner)
  BY <1>2 DEF Pool!KillTask, QuietPoolStep, LoopInv, LoopTypes, Starting
<1>3. CASE Pool!StoreInterrupt(Runner)
  BY <1>3 DEF Pool!StoreInterrupt, QuietPoolStep, LoopInv, LoopTypes, Starting
<1> QED
  BY <1>1, <1>2, <1>3 DEF Pool!CallerStep

LEMMA WorkerQuiet ==
    ASSUME LoopInv, NEW s \in Slots,
           Pool!WorkerProgress(s) \/ Pool!LockForStage(s) \/ Pool!UseAfterFree(s)
    PROVE  QuietPoolStep
<1>1. CASE Pool!Notify(s)
  BY <1>1 DEF Pool!Notify, Pool!memberVars, QuietPoolStep, LoopInv, LoopTypes, Starting
<1>2. CASE ~Pool!Notify(s)
  <2>1. UNCHANGED <<cpc, slot, after, thread_>> /\ fate' \in {fate, "segfault"}
    BY <1>2
       DEF Pool!WorkerProgress, Pool!LockForStage, Pool!UseAfterFree,
           Pool!CheckTask, Pool!MarkRunning, Pool!RunStage, Pool!PollInterrupt,
           Pool!EndStage, Pool!MoveTask, Pool!ClearRunning, Pool!complete,
           Pool!FinishWorker, Pool!memberVars, Pool!callerVars
  <2> QED
    BY <2>1 DEF QuietPoolStep, LoopInv, LoopTypes
<1> QED
  BY <1>1, <1>2

LEMMA PoolHolds == ASSUME LoopInv, PoolStep PROVE LoopInv'
<1>1. Pool!ThreadStep /\ UNCHANGED <<queueVars, schedVars>>
  BY DEF PoolStep
<1>2. Pool!SpawnThread \/ QuietPoolStep
  BY <1>1, OwnerQuiet, CallerQuiet, WorkerQuiet DEF Pool!ThreadStep, Pool!OwnerStep
<1> QED
  BY <1>1, <1>2, SpawnHolds, QuietPoolHolds

-----------------------------------------------------------------------------
LEMMA DestructorHolds ==
    ASSUME LoopInv, Destroy \/ DestructorStep
    PROVE  LoopInv'
<1>1. CASE Destroy \/ SlotGone \/ QueueGone
  BY <1>1, FrameStep
     DEF Destroy, SlotGone, QueueGone, queueVars, poolVars, loopVars, loopState
<1>2. CASE ShutdownSlot
  <2>1. /\ doomed' \in 0..PoolSize /\ doomed \in Slots
        /\ UNCHANGED <<held, call, spc, kill_, session, dispatched, unused_index,
                       thread_, fate>>
    BY <1>2, PoolAssumption
       DEF ShutdownSlot, Pool!shutdown, Pool!memberVars, queueVars, loopVars, LoopInv,
           LoopTypes, Slots
  <2>2. /\ DOMAIN cpc' = {Runner} /\ DOMAIN slot' = {Runner} /\ DOMAIN after' = {Runner}
        /\ cpc'[Runner] \in {"intr", "join"}
        /\ slot'[Runner] \in Slots
        /\ after'[Runner] \in {"idle", "join"}
    BY <1>2, <2>1 DEF ShutdownSlot, Pool!shutdown, LoopInv, LoopTypes
  <2> QED
    BY <2>1, <2>2
       DEF LoopInv, LoopTypes, DispatchHistory, RunnerCalls, FirstSession,
           AfterDispatch, Starting, OneDispatchPerSession, FirstSessionNeverTerminates
<1> QED
  BY <1>1, <1>2 DEF DestructorStep

LEMMA LoopInvStep == ASSUME LoopInv, [Next]_vars PROVE LoopInv'
<1>1. CASE startup \/ RunnerStep
  BY <1>1, StartupStep, StoreStep, LoadStepHolds, PopStep, AbandonStep, ScanStep,
     DispatchStep, StartReturnedStep
     DEF RunnerStep
<1>2. CASE UNCHANGED vars
  BY <1>2, FrameStep
     DEF vars, queueVars, poolVars, taskVars, schedVars, loopVars, dtorVars, loopState
<1> QED
  BY <1>1, <1>2, QueueHolds, PoolHolds, ClientHolds, DestructorHolds DEF Next

LEMMA LoopInvariant == Spec => []LoopInv
<1> QED
  BY InitHolds, LoopInvStep, PTL DEF Spec

\* A session of startup() hands at most one task to the pool: the inner loop is
\* left only by a shutdown, and until then the runner has no further task.
THEOREM OneTaskPerSession == Spec => []OneDispatchPerSession
<1>1. LoopInv => OneDispatchPerSession
  BY DEF LoopInv, DispatchHistory
<1> QED
  BY <1>1, LoopInvariant, PTL

\* set_task_and_run never assigns to a joinable std::thread in the first
\* session, however many slots and tasks there are.
THEOREM FirstSessionSafe == Spec => []FirstSessionNeverTerminates
<1>1. LoopInv => FirstSessionNeverTerminates
  BY DEF LoopInv, FirstSession
<1> QED
  BY <1>1, LoopInvariant, PTL

-----------------------------------------------------------------------------
(* Ownership across the components.                                        *)

Consumers == Clients \cup {Runner}

\* The tasks the pool has not seen: with a client, in the queue, or in the
\* unique_ptr of the runner or of a kill_task.
Outside ==
    fresh \cup {t \in Tasks : \/ \E i \in DOMAIN queue_ : queue_[i] = t
                              \/ \E c \in Consumers : held[c] = t}

\* The tasks the pool owns, and with the destroyed ones those the queue has
\* seen the last of.
InPool == {t \in Tasks : \/ arg[Runner] = t
                         \/ \E s \in Slots : task_[s] = t \/ tmp[s] = t}
Gone == destroyed \cup InPool

\* The scheduler as its queue sees it: a task that went to the pool is gone.
\* (The histories of the queue's refinement proof play no part.)
QueueView == INSTANCE ConcurrentTaskQueueProofs WITH
    Consumers <- Consumers, destroyed <- Gone, arrived <- <<>>, popped <- {}

\* The scheduler as its pool sees it: every task not yet dispatched and not
\* destroyed is still with the client.
PoolView == INSTANCE InterruptibleTaskThreadProofs WITH
    Callers <- {Runner}, Owner <- Runner, InterruptArgs <- {TRUE},
    fresh <- Outside

SchedTypes ==
    /\ pause_ \in BOOLEAN /\ kill_ \in BOOLEAN
    /\ spc \in {"out", "unpause", "unkill", "outer", "gate", "gatepause", "pop",
                "popping", "inner", "innerpause", "scan", "recheck", "dispatch",
                "starting"}
    /\ unused_index \in Slots
    /\ client \in [Clients -> {"idle", "stopping", "killing"}]
    /\ dtor \in {"no", "slots", "joining", "gone"}
    /\ doomed \in 0..PoolSize
    /\ session \in 0..MaxSessions
    /\ dispatched \in [Tasks -> 0..MaxSessions]

\* The parameter of set_task_and_run holds a task only until it is assigned, a
\* worker's tmp only from the move to the end of the callback.
Transient ==
    /\ cpc[Runner] # "assign" => arg[Runner] = NoTask
    /\ \A s \in Slots :
        tmp[s] # NoTask => wpc[s] \in {"clear", "complete", "callback"}

\* Both views are well typed and give every task at most one owner.
Owned == QueueView!TypeOK /\ QueueView!UniqueOwner /\ PoolView!ThreadInv /\ Transient

OwnerInv == Owned /\ SchedTypes

\* A callback comes only for a dispatched task.
ReportedDispatched ==
    /\ \A t \in InPool : dispatched[t] # 0
    /\ \A t \in Tasks : callbacks[t] # <<>> => dispatched[t] # 0

-----------------------------------------------------------------------------
(* The way to destruction.                                                 *)

\* Outside a pop and the inner loop the runner has no task, outside kill_task
\* a client has none.
HandsEmpty ==
    /\ spc \in {"out", "unpause", "unkill", "outer", "gate", "gatepause", "pop"}
            => held[Runner] = NoTask
    /\ \A c \in Clients : /\ client[c] # "killing" => held[c] = NoTask
                          /\ call[c] = "idle"

\* The runner is inside a call of the pool only while it starts a task or
\* joins a slot.
PoolCalls ==
    /\ cpc[Runner] \in {"assign", "spawn", "prewait", "wait", "woken"}
            => spc = "starting"
    /\ cpc[Runner] \in {"intr", "deref", "store", "join"} => dtor = "joining"
    /\ cpc[Runner] \in {"intr", "deref", "store"} => after[Runner] = "join"

\* The destructor has the scheduler for itself, and goes through the slots.
Destruction ==
    /\ dtor = "no" => doomed = PoolSize
    /\ dtor # "no" => /\ spc = "out"
                      /\ \A c \in Clients : client[c] = "idle"
                      /\ \A s \in Slots : s > doomed =>
                            \/ thread_[s] = "none"
                            \/ /\ dtor = "joining" /\ cpc[Runner] # "idle"
                               /\ s = doomed + 1
    /\ dtor = "joining" => slot[Runner] = doomed + 1
    /\ dtor = "gone" => doomed = 0 /\ queue_ = <<>> /\ Alive

\* A slot whose worker is past the move, or has none, has no task, unless the
\* runner has just assigned one.
SlotEmptied ==
    \A s \in Slots :
        wpc[s] \in {"clear", "complete", "callback", "done", "off"} =>
            task_[s] = NoTask \/ (slot[Runner] = s /\ cpc[Runner] = "spawn")

\* A dispatched task is on its way to the callback, unless it was overwritten
\* by a start that is about to terminate the process.
OnItsWay ==
    /\ \A s \in Slots : wpc[s] = "callback" => callbacks[tmp[s]] # <<>>
    /\ Alive => \A t \in Tasks : dispatched[t] # 0 =>
            \/ callbacks[t] # <<>> \/ t \in InPool
            \/ cpc[Runner] = "spawn" /\ thread_[slot[Runner]] = "joinable"

CleanInv == HandsEmpty /\ PoolCalls /\ Destruction /\ SlotEmptied /\ OnItsWay

SchedulerInv == LoopInv /\ OwnerInv /\ ReportedDispatched /\ CleanInv

-----------------------------------------------------------------------------
(* The queue's side of ownership.                                          *)

\* What the two views need of the constants.
LEMMA ViewAssumptions ==
    /\ NoTask \notin Tasks /\ UuidOf \in [Tasks -> UUIDs] /\ MaxLength \in Nat
    /\ StageCount \in [Tasks -> Nat] /\ {TRUE} \subseteq BOOLEAN
  BY SchedulerTaskAssumption, SchedulerUuidAssumption, SchedulerStagesAssumption,
     SchedulerLengthAssumption

\* Every task is on one side.
LEMMA TwoSides ==
    QueueView!TypeOK /\ QueueView!UniqueOwner => Outside = Tasks \ Gone
<1> SUFFICES ASSUME QueueView!TypeOK, QueueView!UniqueOwner
             PROVE  Outside = Tasks \ Gone
  OBVIOUS
<1>1. \A t \in Tasks : t \in Outside \/ t \in Gone
  BY DEF QueueView!UniqueOwner, QueueView!NoLeak, Outside
<1>2. fresh \subseteq Tasks /\ fresh \cap Gone = {}
  BY DEF QueueView!TypeOK, QueueView!UniqueOwner, QueueView!OwnersDisjoint
<1>3. \A i \in DOMAIN queue_ : queue_[i] \in Tasks => queue_[i] \notin Gone
  BY SchedulerTaskAssumption
     DEF QueueView!UniqueOwner, QueueView!OwnersDisjoint
<1>4. \A c \in Consumers : held[c] \notin Gone
  BY DEF QueueView!UniqueOwner, QueueView!OwnersDisjoint
<1>5. \A t \in Outside : t \in Tasks /\ t \notin Gone
  BY <1>2, <1>3, <1>4 DEF Outside
<1> QED
  BY <1>1, <1>5

\* A step that is one of the queue as the queue sees it.
LEMMA QueueSees ==
    ASSUME QueueView!TypeOK, QueueView!UniqueOwner, QueueView!Next
    PROVE  QueueView!TypeOK' /\ QueueView!UniqueOwner'
<1>1. [QueueView!Next]_(QueueView!vars)
  OBVIOUS
<1>2. QueueView!TypeOK'
  BY <1>1, ViewAssumptions, QueueView!TypeStep
<1>3. QueueView!UniqueOwner'
  BY <1>1, ViewAssumptions, QueueView!OwnerStep
<1> QED
  BY <1>2, <1>3

\* A step in which the queue takes no part.
LEMMA QueueRests ==
    ASSUME QueueView!TypeOK, QueueView!UniqueOwner, UNCHANGED <<queueVars, fresh>>,
           Gone' = Gone, fate' \in {"alive", "segfault", "terminated"}
    PROVE  QueueView!TypeOK' /\ QueueView!UniqueOwner'
<1>1. QueueView!TypeOK'
  BY DEF QueueView!TypeOK, queueVars
<1>2. QueueView!UniqueOwner'
  BY DEF QueueView!UniqueOwner, QueueView!QueueHasNoDuplicate, QueueView!HeldOnce,
         QueueView!OwnersDisjoint, QueueView!NoLeak, queueVars
<1> QED
  BY <1>1, <1>2

LEMMA PoolSees ==
    ASSUME PoolView!ThreadInv, PoolView!Next
    PROVE  PoolView!ThreadInv'
<1>1. [PoolView!Next]_(PoolView!vars)
  OBVIOUS
<1> QED
  BY <1>1, ViewAssumptions, PoolView!NextThreadInv

\* A step in which the pool takes no part: tasks it has not seen are destroyed
\* and may be marked killed.
LEMMA PoolRests ==
    ASSUME PoolView!ThreadInv, UNCHANGED <<poolVars, callbacks>>,
           Outside' \subseteq Outside, Outside' \cap destroyed' = {},
           destroyed \subseteq destroyed', destroyed' \subseteq destroyed \cup Outside,
           killed' \in [Tasks -> BOOLEAN], fate' \in {"alive", "segfault", "terminated"}
    PROVE  PoolView!ThreadInv'
<1>1. PoolView!TypeOK /\ PoolView!SlotInv /\ PoolView!ReportInv
  BY DEF PoolView!ThreadInv
<1>2. PoolView!TypeOK'
  BY <1>1 DEF PoolView!TypeOK, poolVars
<1>3. PoolView!SlotInv'
  BY <1>1
     DEF PoolView!SlotInv, PoolView!NoWorkerWithoutThread,
         PoolView!ClearedBeforeCallback, PoolView!MovedOut, PoolView!CallbackHasTask,
         poolVars
<1>4. PoolView!OnePlace'
  <2>1. PoolView!FreshApart'
    BY <1>1 DEF PoolView!ReportInv, PoolView!OnePlace, PoolView!FreshApart, poolVars
  <2>2. PoolView!ArgApart' /\ PoolView!TaskApart' /\ PoolView!TmpApart'
    BY <1>1
       DEF PoolView!ReportInv, PoolView!OnePlace, PoolView!FreshApart,
           PoolView!ArgApart, PoolView!TaskApart, PoolView!TmpApart, poolVars
  <2> QED
    BY <2>1, <2>2 DEF PoolView!OnePlace
<1>5. PoolView!NotYetReported' /\ PoolView!AtMostOnce'
  BY <1>1 DEF PoolView!ReportInv, PoolView!NotYetReported, PoolView!AtMostOnce, poolVars
<1> QED
  BY <1>2, <1>3, <1>4, <1>5 DEF PoolView!ThreadInv, PoolView!ReportInv
\* A step of the queue: it takes tasks from outside the pool only.
LEMMA QueueSide ==
    ASSUME Owned, QueueView!Next, UNCHANGED <<poolVars, callbacks>>,
           destroyed \subseteq destroyed', destroyed' \subseteq destroyed \cup Outside,
           killed' \in [Tasks -> BOOLEAN]
    PROVE  Owned'
<1>1. QueueView!TypeOK' /\ QueueView!UniqueOwner'
  BY QueueSees DEF Owned
<1>2. Outside = Tasks \ Gone /\ Outside' = Tasks \ Gone'
  <2>1. (QueueView!TypeOK /\ QueueView!UniqueOwner => Outside = Tasks \ Gone)'
    BY TwoSides, PTL
  <2> QED
    BY <1>1, <2>1, TwoSides DEF Owned
<1>3. InPool' = InPool
  BY DEF InPool, poolVars
<1>4. Outside' \subseteq Outside /\ Outside' \cap destroyed' = {}
  BY <1>2, <1>3 DEF Gone
<1>5. PoolView!ThreadInv'
  BY <1>1, <1>4, PoolRests DEF Owned, QueueView!TypeOK
<1>6. Transient'
  BY DEF Owned, Transient, poolVars
<1> QED
  BY <1>1, <1>5, <1>6 DEF Owned

\* A step that touches neither component.
LEMMA NeitherSide ==
    ASSUME Owned, UNCHANGED <<queueVars, poolVars, taskVars, fate>>
    PROVE  Owned'
<1>1. Gone' = Gone /\ Outside' = Outside
  BY DEF Gone, InPool, Outside, queueVars, poolVars, taskVars
<1>2. QueueView!TypeOK' /\ QueueView!UniqueOwner'
  <2>1. fate' \in {"alive", "segfault", "terminated"}
    BY DEF Owned, QueueView!TypeOK
  <2> QED
    BY <1>1, <2>1, QueueRests DEF Owned, taskVars
<1>3. PoolView!ThreadInv'
  BY <1>1, PoolView!NextThreadInv, ViewAssumptions
     DEF Owned, PoolView!vars, PoolView!memberVars, PoolView!workerVars,
         PoolView!callerVars, PoolView!taskVars, poolVars, taskVars
<1>4. Transient'
  BY DEF Owned, Transient, poolVars
<1> QED
  BY <1>2, <1>3, <1>4 DEF Owned

\* What a pop or the end of a unique_ptr destroys came from outside the pool.
LEMMA HeldOutside ==
    ASSUME QueueView!TypeOK, NEW c \in Consumers
    PROVE  {held[c]} \ {NoTask} \subseteq Outside
  BY DEF QueueView!TypeOK, QueueView!Pointers, Outside

LEMMA PopSeen ==
    ASSUME Owned, NEW c \in Consumers, Queue!PopInto(c), UNCHANGED <<poolVars, callbacks>>
    PROVE  /\ QueueView!PopInto(c)
           /\ destroyed \subseteq destroyed' /\ destroyed' \subseteq destroyed \cup Outside
<1>1. InPool' = InPool
  BY DEF InPool, poolVars
<1>2. Gone' = Gone \cup ({held[c]} \ {NoTask})
  BY <1>1 DEF Gone, Queue!PopInto
<1> QED
  BY <1>2, HeldOutside DEF Queue!PopInto, QueueView!PopInto, Owned

LEMMA CallPopOwned == ASSUME Owned, CallPop PROVE Owned'
<1>1. /\ UNCHANGED <<poolVars, killed, callbacks>> /\ Runner \in Consumers
      /\ Queue!StartWait(Runner, TRUE)
  BY DEF CallPop, Queue!wait_for_and_pop, Consumers
<1>2. killed' \in [Tasks -> BOOLEAN]
  BY <1>1 DEF Owned, PoolView!ThreadInv, PoolView!TypeOK
<1>3. CASE Queue!PopInto(Runner) /\ UNCHANGED Queue!waitVars
  <2>1. QueueView!StartWait(Runner, TRUE)
    BY <1>1, <1>3, PopSeen
       DEF Queue!StartWait, QueueView!StartWait, Queue!waitVars, QueueView!waitVars,
           Queue!Alive, QueueView!Alive
  <2> QED
    BY <1>1, <1>2, <1>3, <2>1, PopSeen, QueueSide
       DEF QueueView!Next, QueueView!wait_for_and_pop
<1>4. CASE ~(Queue!PopInto(Runner) /\ UNCHANGED Queue!waitVars)
  <2>1. /\ UNCHANGED <<queue_, held, fresh, destroyed, fate>> /\ InPool' = InPool
        /\ QueueView!StartWait(Runner, TRUE)
    BY <1>1, <1>4
       DEF Queue!StartWait, QueueView!StartWait, Gone, InPool, poolVars,
           Queue!Alive, QueueView!Alive
  <2> QED
    BY <1>1, <1>2, <2>1, QueueSide DEF QueueView!Next, QueueView!wait_for_and_pop
<1> QED
  BY <1>3, <1>4

LEMMA QueueStepOwned == ASSUME Owned, QueueStep PROVE Owned'
<1>1. UNCHANGED <<poolVars, killed, callbacks>> /\ Runner \in Consumers
  BY DEF QueueStep, Consumers
<1>2. killed' \in [Tasks -> BOOLEAN] /\ InPool' = InPool
  BY <1>1 DEF Owned, PoolView!ThreadInv, PoolView!TypeOK, InPool, poolVars
<1>3. CASE Queue!Expire(Runner) \/ Queue!SpuriousWakeup(Runner)
  <2>1. /\ QueueView!Expire(Runner) \/ QueueView!SpuriousWakeup(Runner)
        /\ destroyed' = destroyed
    BY <1>2, <1>3
       DEF Queue!Expire, Queue!SpuriousWakeup, QueueView!Expire,
           QueueView!SpuriousWakeup, Queue!Alive, QueueView!Alive, Gone
  <2> QED
    BY <1>1, <1>2, <2>1, QueueSide DEF QueueView!Next
<1>4. CASE Queue!Recheck(Runner)
  <2>1. CASE Queue!PopInto(Runner)
    <3>1. QueueView!Recheck(Runner)
      BY <1>1, <1>4, <2>1, PopSeen
         DEF Queue!Recheck, QueueView!Recheck, Queue!PopInto, Queue!Alive,
             QueueView!Alive
    <3> QED
      BY <1>1, <1>2, <2>1, <3>1, PopSeen, QueueSide DEF QueueView!Next
  <2>2. CASE ~Queue!PopInto(Runner)
    <3>1. QueueView!Recheck(Runner) /\ destroyed' = destroyed
      BY <1>2, <1>4, <2>2
         DEF Queue!Recheck, QueueView!Recheck, Queue!Alive, QueueView!Alive, Gone
    <3> QED
      BY <1>1, <1>2, <3>1, QueueSide DEF QueueView!Next
  <2> QED
    BY <2>1, <2>2
<1> QED
  BY <1>3, <1>4 DEF QueueStep

LEMMA queue_taskOwned ==
    ASSUME Owned, NEW t \in Tasks \cup {NoTask}, queue_task(t)
    PROVE  Owned'
<1>1. UNCHANGED <<poolVars, killed, callbacks, destroyed>> /\ Queue!push(t)
  BY DEF queue_task, Queue!push
<1>2. killed' \in [Tasks -> BOOLEAN] /\ InPool' = InPool
  BY <1>1 DEF Owned, PoolView!ThreadInv, PoolView!TypeOK, InPool, poolVars
<1>3. QueueView!push(t)
  BY <1>1, <1>2
     DEF Queue!push, QueueView!push, Queue!NotifyAll, QueueView!NotifyAll,
         Queue!Alive, QueueView!Alive, Gone, Consumers
<1> QED
  BY <1>1, <1>2, <1>3, QueueSide DEF QueueView!Next, QueueView!Pointers

\* remove_if looks at the same deque in both views.
LEMMA kill_taskOwned ==
    ASSUME Owned, NEW c \in Clients, NEW u \in UUIDs, kill_task(c, u)
    PROVE  Owned'
<1>1. /\ UNCHANGED <<poolVars, killed, callbacks>> /\ c \in Consumers
      /\ Queue!remove_task_from_queue(u, c)
  BY DEF kill_task, Consumers
<1>2. killed' \in [Tasks -> BOOLEAN] /\ InPool' = InPool
  BY <1>1 DEF Owned, PoolView!ThreadInv, PoolView!TypeOK, InPool, poolVars
<1>3. CASE NoTask \in Queue!Entries(queue_)
  <2>1. QueueView!remove_task_from_queue(u, c) /\ destroyed' = destroyed
    BY <1>1, <1>2, <1>3
       DEF Queue!remove_task_from_queue, QueueView!remove_task_from_queue,
           Queue!Entries, QueueView!Entries, Queue!waitVars, QueueView!waitVars,
           Queue!Alive, QueueView!Alive, Gone
  <2> QED
    BY <1>1, <1>2, <2>1, QueueSide DEF QueueView!Next
<1>4. CASE NoTask \notin Queue!Entries(queue_)
  <2>1. Queue!KeepOnly(u) /\ Queue!MoveMatches(u, c) /\ fate' = fate
    BY <1>1, <1>4 DEF Queue!remove_task_from_queue
  <2>2. QueueView!KeepOnly(u)
    BY <2>1 DEF Queue!KeepOnly, QueueView!KeepOnly, Queue!Kept, QueueView!Kept
  <2>3. Queue!Matches(u) = QueueView!Matches(u)
    BY DEF Queue!Matches, QueueView!Matches
  <2>4. /\ \A i \in DOMAIN queue_ : queue_[i] \in Outside
        /\ Queue!Matches(u) \subseteq DOMAIN queue_
    BY <1>4
       DEF Owned, QueueView!TypeOK, QueueView!Pointers, Queue!Entries, Queue!Matches,
           Outside
  <2>5. /\ QueueView!MoveMatches(u, c)
        /\ destroyed \subseteq destroyed' /\ destroyed' \subseteq destroyed \cup Outside
    <3>1. CASE Queue!Matches(u) = {}
      BY <1>2, <2>1, <2>3, <3>1 DEF Queue!MoveMatches, QueueView!MoveMatches, Gone
    <3>2. CASE Queue!Matches(u) # {}
      <4>1. PICK last \in Queue!Matches(u) :
              /\ \A i \in Queue!Matches(u) : i <= last
              /\ held' = [held EXCEPT ![c] = queue_[last]]
              /\ destroyed' = destroyed
                    \cup ({queue_[i] : i \in Queue!Matches(u) \ {last}})
                    \cup ({held[c]} \ {NoTask})
        BY <2>1, <3>2 DEF Queue!MoveMatches
      <4>2. destroyed \subseteq destroyed' /\ destroyed' \subseteq destroyed \cup Outside
        BY <1>1, <2>4, <4>1, HeldOutside DEF Owned
      <4>3. Gone' = Gone \cup ({queue_[i] : i \in Queue!Matches(u) \ {last}})
                         \cup ({held[c]} \ {NoTask})
        BY <1>2, <4>1 DEF Gone
      <4>4. QueueView!MoveMatches(u, c)
        BY <2>3, <3>2, <4>1, <4>3 DEF QueueView!MoveMatches
      <4> QED
        BY <4>2, <4>4
    <3> QED
      BY <3>1, <3>2
  <2>6. QueueView!remove_task_from_queue(u, c)
    BY <1>1, <1>4, <2>1, <2>2, <2>5
       DEF Queue!remove_task_from_queue, QueueView!remove_task_from_queue,
           Queue!Entries, QueueView!Entries, Queue!waitVars, QueueView!waitVars,
           Queue!Alive, QueueView!Alive
  <2> QED
    BY <1>1, <1>2, <2>5, <2>6, QueueSide DEF QueueView!Next
<1> QED
  BY <1>3, <1>4

\* The unique_ptr of a consumer ends with the task it has, if it has one.
LEMMA ReleaseOwned ==
    ASSUME Owned, NEW c \in Consumers, call[c] = "idle", fate = "alive",
           held' = [held EXCEPT ![c] = NoTask],
           destroyed' = destroyed \cup ({held[c]} \ {NoTask}),
           killed' \in [Tasks -> BOOLEAN],
           UNCHANGED <<queue_, call, timed, expired, poolVars, callbacks, fresh, fate>>
    PROVE  Owned'
<1>1. /\ destroyed \subseteq destroyed' /\ destroyed' \subseteq destroyed \cup Outside
      /\ InPool' = InPool
  BY HeldOutside DEF Owned, InPool, poolVars
<1>2. CASE held[c] # NoTask
  <2>1. QueueView!Release(c)
    BY <1>1, <1>2 DEF QueueView!Release, QueueView!waitVars, QueueView!Alive, Gone
  <2> QED
    BY <1>1, <2>1, QueueSide DEF QueueView!Next
<1>3. CASE held[c] = NoTask
  <2>1. held' = held /\ destroyed' = destroyed
    BY <1>3 DEF Owned, QueueView!TypeOK
  <2>2. Gone' = Gone /\ Outside' = Outside /\ Outside \cap destroyed = {}
    BY <1>1, <2>1, TwoSides DEF Owned, Gone, Outside
  <2>3. fate' \in {"alive", "segfault", "terminated"}
    OBVIOUS
  <2>4. QueueView!TypeOK' /\ QueueView!UniqueOwner'
    BY <2>1, <2>2, <2>3, QueueRests DEF Owned, queueVars
  <2>5. PoolView!ThreadInv'
    BY <2>1, <2>2, <2>3, PoolRests DEF Owned
  <2>6. Transient'
    BY DEF Owned, Transient, poolVars
  <2> QED
    BY <2>4, <2>5, <2>6 DEF Owned
<1> QED
  BY <1>2, <1>3

LEMMA AbandonOwned == ASSUME Owned, RunnerCalls, AbandonTask PROVE Owned'
<1>1. /\ call[Runner] = "idle" /\ fate = "alive" /\ Runner \in Consumers
      /\ held' = [held EXCEPT ![Runner] = NoTask]
      /\ destroyed' = destroyed \cup ({held[Runner]} \ {NoTask})
      /\ UNCHANGED <<queue_, call, timed, expired, poolVars, callbacks, fresh, fate>>
  BY DEF AbandonTask, Go, Alive, RunnerCalls, next_task, Consumers
<1>2. killed' \in [Tasks -> BOOLEAN]
  BY DEF AbandonTask, Owned, PoolView!ThreadInv, PoolView!TypeOK
<1> QED
  BY <1>1, <1>2, ReleaseOwned

LEMMA KillTaskReturnsOwned ==
    ASSUME Owned, NEW c \in Clients, KillTaskReturns(c)
    PROVE  Owned'
<1>1. CASE Queue!Release(c)
  <2>1. /\ call[c] = "idle" /\ fate = "alive" /\ c \in Consumers
        /\ held' = [held EXCEPT ![c] = NoTask]
        /\ destroyed' = destroyed \cup ({held[c]} \ {NoTask})
        /\ UNCHANGED <<queue_, call, timed, expired, poolVars, callbacks, fresh, fate>>
    BY <1>1 DEF KillTaskReturns, Queue!Release, Queue!Alive, Queue!waitVars, Consumers
  <2>2. killed' \in [Tasks -> BOOLEAN]
    BY DEF KillTaskReturns, Owned, PoolView!ThreadInv, PoolView!TypeOK
  <2> QED
    BY <2>1, <2>2, ReleaseOwned
<1>2. CASE UNCHANGED <<queueVars, fresh, destroyed, fate>>
  BY <1>2, NeitherSide DEF KillTaskReturns, taskVars
<1> QED
  BY <1>1, <1>2 DEF KillTaskReturns

\* The deque's destructor is a clear() that finds no waiter.
LEMMA QueueGoneOwned ==
    ASSUME Owned, \A c \in Consumers : call[c] = "idle", QueueGone
    PROVE  Owned'
<1>1. /\ fate = "alive" /\ queue_' = <<>>
      /\ destroyed' = destroyed \cup (Queue!Entries(queue_) \ {NoTask})
      /\ UNCHANGED <<call, timed, expired, held, poolVars, killed, callbacks, fresh, fate>>
  BY DEF QueueGone, Alive
<1>2. killed' \in [Tasks -> BOOLEAN] /\ InPool' = InPool
  BY <1>1 DEF Owned, PoolView!ThreadInv, PoolView!TypeOK, InPool, poolVars
<1>3. Queue!Entries(queue_) \ {NoTask} \subseteq Outside
  BY DEF Owned, QueueView!TypeOK, QueueView!Pointers, Queue!Entries, Outside
<1>4. call' = [c \in Consumers |-> IF call[c] = "waiting" THEN "woken" ELSE call[c]]
  BY <1>1 DEF Owned, QueueView!TypeOK
<1>5. Gone' = Gone \cup (QueueView!Entries(queue_) \ {NoTask})
  BY <1>1, <1>2 DEF Gone, Queue!Entries, QueueView!Entries
<1>6. QueueView!clear
  BY <1>1, <1>4, <1>5 DEF QueueView!clear, QueueView!NotifyAll, QueueView!Alive
<1> QED
  BY <1>1, <1>2, <1>3, <1>6, QueueSide DEF QueueView!Next

-----------------------------------------------------------------------------
(* The pool's side of ownership.                                           *)

-----------------------------------------------------------------------------
(* Steps of the pool.                                                      *)

\* A step of the pool is the same step in its view.
LEMMA OwnerStepsSeen ==
    ASSUME UNCHANGED Outside, Pool!OwnerStep \/ Pool!SpuriousReturn
    PROVE  PoolView!OwnerStep \/ PoolView!SpuriousReturn
<1> USE DEF Pool!Alive, PoolView!Alive, Pool!memberVars, PoolView!memberVars,
            Pool!workerVars, PoolView!workerVars, Pool!taskVars, PoolView!taskVars
<1>1. CASE Pool!AssignTask
  BY <1>1 DEF Pool!AssignTask, PoolView!AssignTask, PoolView!OwnerStep
<1>2. CASE Pool!SpawnThread
  BY <1>2 DEF Pool!SpawnThread, PoolView!SpawnThread, PoolView!OwnerStep
<1>3. CASE Pool!EnterWait
  BY <1>3 DEF Pool!EnterWait, PoolView!EnterWait, PoolView!OwnerStep
<1>4. CASE Pool!ReturnStarted
  BY <1>4 DEF Pool!ReturnStarted, PoolView!ReturnStarted, PoolView!OwnerStep
<1>5. CASE Pool!Join
  BY <1>5 DEF Pool!Join, PoolView!Join, PoolView!OwnerStep
<1>6. CASE Pool!SpuriousReturn
  BY <1>6 DEF Pool!SpuriousReturn, PoolView!SpuriousReturn
<1> QED
  BY <1>1, <1>2, <1>3, <1>4, <1>5, <1>6 DEF Pool!OwnerStep

LEMMA CallerStepsSeen ==
    ASSUME UNCHANGED Outside, Pool!CallerStep(Runner)
    PROVE  PoolView!CallerStep(Runner)
<1> USE DEF Pool!Alive, PoolView!Alive, Pool!workerVars, PoolView!workerVars,
            Pool!taskVars, PoolView!taskVars
<1>1. CASE Pool!TestTask(Runner)
  BY <1>1 DEF Pool!TestTask, PoolView!TestTask, PoolView!CallerStep
<1>2. CASE Pool!KillTask(Runner)
  BY <1>2 DEF Pool!KillTask, PoolView!KillTask, PoolView!CallerStep
<1>3. CASE Pool!StoreInterrupt(Runner)
  BY <1>3 DEF Pool!StoreInterrupt, PoolView!StoreInterrupt, PoolView!CallerStep
<1> QED
  BY <1>1, <1>2, <1>3 DEF Pool!CallerStep

LEMMA WorkerStepsSeen ==
    ASSUME UNCHANGED Outside, NEW s \in Slots,
           Pool!WorkerProgress(s) \/ Pool!LockForStage(s) \/ Pool!UseAfterFree(s)
    PROVE  PoolView!WorkerProgress(s) \/ PoolView!LockForStage(s) \/ PoolView!UseAfterFree(s)
<1> USE DEF Pool!Alive, PoolView!Alive, Pool!memberVars, PoolView!memberVars,
            Pool!workerVars, PoolView!workerVars, Pool!callerVars, PoolView!callerVars,
            Pool!taskVars, PoolView!taskVars
<1>1. CASE Pool!Notify(s)
  BY <1>1 DEF Pool!FrameAlive, PoolView!FrameAlive, Pool!Notify, PoolView!Notify,
              PoolView!WorkerProgress
<1>2. CASE Pool!CheckTask(s)
  BY <1>2 DEF Pool!CheckTask, PoolView!CheckTask, PoolView!WorkerProgress
<1>3. CASE Pool!MarkRunning(s)
  BY <1>3 DEF Pool!MarkRunning, PoolView!MarkRunning, PoolView!WorkerProgress
<1>4. CASE Pool!RunStage(s)
  BY <1>4 DEF Pool!RunStage, PoolView!RunStage, PoolView!WorkerProgress
<1>5. CASE Pool!PollInterrupt(s)
  BY <1>5 DEF Pool!PollInterrupt, PoolView!PollInterrupt, PoolView!WorkerProgress
<1>6. CASE Pool!EndStage(s)
  BY <1>6 DEF Pool!StageContinues, PoolView!StageContinues, Pool!EndStage,
              PoolView!EndStage, PoolView!WorkerProgress
<1>7. CASE Pool!MoveTask(s)
  BY <1>7 DEF Pool!MoveTask, PoolView!MoveTask, PoolView!WorkerProgress
<1>8. CASE Pool!ClearRunning(s)
  BY <1>8 DEF Pool!ClearRunning, PoolView!ClearRunning, PoolView!WorkerProgress
<1>9. CASE Pool!complete(s)
  BY <1>9 DEF Pool!complete, PoolView!complete, PoolView!WorkerProgress
<1>10. CASE Pool!FinishWorker(s)
  BY <1>10 DEF Pool!FinishWorker, PoolView!FinishWorker, PoolView!WorkerProgress
<1>11. CASE Pool!LockForStage(s)
  BY <1>11 DEF Pool!LockForStage, PoolView!LockForStage
<1>12. CASE Pool!UseAfterFree(s)
  BY <1>12 DEF Pool!UseAfterFree, PoolView!UseAfterFree
<1> QED
  BY <1>1, <1>2, <1>3, <1>4, <1>5, <1>6, <1>7, <1>8, <1>9, <1>10, <1>11, <1>12
     DEF Pool!WorkerProgress

LEMMA PoolStepSeen ==
    ASSUME UNCHANGED Outside, Pool!ThreadStep
    PROVE  PoolView!Next
<1>1. PoolView!ThreadStep
  BY OwnerStepsSeen, CallerStepsSeen, WorkerStepsSeen
     DEF Pool!ThreadStep, PoolView!ThreadStep
<1> QED
  BY <1>1 DEF PoolView!Next

\* A step of the pool that moves no task.
LEMMA PlacesKept ==
    ASSUME Owned, UNCHANGED <<task_, tmp, arg, destroyed>>,
           cpc[Runner] = "assign" => cpc'[Runner] = "assign",
           \A s \in Slots : wpc[s] \in {"clear", "complete", "callback"}
                                => wpc'[s] \in {"clear", "complete", "callback"}
    PROVE  Gone' = Gone /\ Transient'
  BY DEF Gone, InPool, Owned, Transient

LEMMA OwnerPlaces ==
    ASSUME Owned,
           \/ Pool!SpawnThread \/ Pool!EnterWait \/ Pool!ReturnStarted \/ Pool!Join
           \/ Pool!SpuriousReturn \/ Pool!CallerStep(Runner)
    PROVE  fresh' = fresh /\ Gone' = Gone /\ Transient'
<1>1. /\ cpc \in [{Runner} -> PoolView!CallerPCs] /\ wpc \in [Slots -> PoolView!WorkerPCs]
      /\ slot[Runner] \in Slots /\ after[Runner] \in {"idle", "join"}
      /\ thread_ \in [Slots -> {"none", "joinable"}]
      /\ \A s \in Slots : thread_[s] = "none" => wpc[s] = "off"
  BY DEF Owned, PoolView!ThreadInv, PoolView!TypeOK, PoolView!SlotInv,
         PoolView!NoWorkerWithoutThread
<1>2. CASE Pool!SpawnThread
  <2>1. CASE thread_[slot[Runner]] = "joinable"
    BY <1>2, <2>1, PlacesKept DEF Pool!SpawnThread, Pool!taskVars
  <2>2. CASE thread_[slot[Runner]] # "joinable"
    <3>1. wpc[slot[Runner]] = "off"
      BY <1>1, <2>2
    <3> QED
      BY <1>1, <1>2, <2>2, <3>1, PlacesKept DEF Pool!SpawnThread, Pool!taskVars
  <2> QED
    BY <2>1, <2>2
<1>3. CASE Pool!EnterWait \/ Pool!ReturnStarted \/ Pool!SpuriousReturn
  BY <1>1, <1>3, PlacesKept
     DEF Pool!EnterWait, Pool!ReturnStarted, Pool!SpuriousReturn, Pool!memberVars,
         Pool!workerVars, Pool!taskVars
<1>4. CASE Pool!Join
  BY <1>1, <1>4, PlacesKept DEF Pool!Join, Pool!taskVars
<1>5. CASE Pool!CallerStep(Runner)
  <2>1. /\ UNCHANGED <<task_, tmp, arg, destroyed, fresh, wpc>>
        /\ cpc[Runner] # "assign"
    BY <1>5
       DEF Pool!CallerStep, Pool!TestTask, Pool!KillTask, Pool!StoreInterrupt,
           Pool!workerVars, Pool!taskVars
  <2> QED
    BY <1>1, <2>1, PlacesKept
<1> QED
  BY <1>2, <1>3, <1>4, <1>5

LEMMA WorkerPlaces ==
    ASSUME Owned, NEW s \in Slots,
           \/ Pool!Notify(s) \/ Pool!CheckTask(s) \/ Pool!MarkRunning(s)
           \/ Pool!LockForStage(s) \/ Pool!RunStage(s) \/ Pool!PollInterrupt(s)
           \/ Pool!EndStage(s) \/ Pool!ClearRunning(s) \/ Pool!complete(s)
           \/ Pool!UseAfterFree(s)
    PROVE  fresh' = fresh /\ Gone' = Gone /\ Transient'
<1>1. cpc \in [{Runner} -> PoolView!CallerPCs] /\ wpc \in [Slots -> PoolView!WorkerPCs]
  BY DEF Owned, PoolView!ThreadInv, PoolView!TypeOK
<1>2. UNCHANGED <<task_, tmp, arg, destroyed, fresh>>
  BY DEF Pool!Notify, Pool!CheckTask, Pool!MarkRunning, Pool!LockForStage,
         Pool!RunStage, Pool!PollInterrupt, Pool!EndStage, Pool!ClearRunning,
         Pool!complete, Pool!UseAfterFree, Pool!memberVars, Pool!workerVars,
         Pool!callerVars, Pool!taskVars
<1>3. cpc' = cpc \/ cpc[Runner] = "wait"
  BY DEF Pool!Notify, Pool!CheckTask, Pool!MarkRunning, Pool!LockForStage,
         Pool!RunStage, Pool!PollInterrupt, Pool!EndStage, Pool!ClearRunning,
         Pool!complete, Pool!UseAfterFree, Pool!callerVars
<1>4. \/ wpc' = wpc
      \/ wpc[s] \notin {"clear", "complete", "callback"}
            /\ \E pc : wpc' = [wpc EXCEPT ![s] = pc]
      \/ \E pc \in {"complete", "callback"} : wpc' = [wpc EXCEPT ![s] = pc]
  BY DEF Pool!Notify, Pool!CheckTask, Pool!MarkRunning, Pool!LockForStage,
         Pool!RunStage, Pool!PollInterrupt, Pool!EndStage, Pool!ClearRunning,
         Pool!complete, Pool!UseAfterFree, Pool!workerVars
<1> QED
  BY <1>1, <1>2, <1>3, <1>4, PlacesKept

\* The three steps that move a task within the pool, or out of it.
LEMMA MovePlaces ==
    ASSUME Owned,
           \/ Pool!AssignTask
           \/ \E s \in Slots : Pool!MoveTask(s) \/ Pool!FinishWorker(s)
    PROVE  fresh' = fresh /\ Gone' = Gone /\ Transient'
<1>1. /\ cpc \in [{Runner} -> PoolView!CallerPCs] /\ wpc \in [Slots -> PoolView!WorkerPCs]
      /\ arg \in [{Runner} -> PoolView!Pointers] /\ slot[Runner] \in Slots
      /\ task_ \in [Slots -> PoolView!Pointers] /\ tmp \in [Slots -> PoolView!Pointers]
  BY DEF Owned, PoolView!ThreadInv, PoolView!TypeOK
<1>2. CASE Pool!AssignTask
  <2>1. /\ task_' = [task_ EXCEPT ![slot[Runner]] = arg[Runner]]
        /\ destroyed' = destroyed \cup ({task_[slot[Runner]]} \ {NoTask})
        /\ arg' = [arg EXCEPT ![Runner] = NoTask]
        /\ UNCHANGED <<fresh, tmp, wpc>>
    BY <1>2 DEF Pool!AssignTask, Pool!workerVars
  <2>2. Gone' = Gone
    BY <1>1, <2>1, SchedulerTaskAssumption DEF Gone, InPool, PoolView!Pointers
  <2>3. Transient'
    BY <1>1, <2>1 DEF Owned, Transient
  <2> QED
    BY <2>1, <2>2, <2>3
<1>3. ASSUME NEW s \in Slots, Pool!MoveTask(s)
      PROVE  fresh' = fresh /\ Gone' = Gone /\ Transient'
  <2>1. /\ tmp' = [tmp EXCEPT ![s] = task_[s]] /\ tmp[s] = NoTask
        /\ task_' = [task_ EXCEPT ![s] = NoTask]
        /\ wpc' = [wpc EXCEPT ![s] = "clear"]
        /\ UNCHANGED <<fresh, destroyed, arg, cpc>>
    BY <1>3 DEF Pool!MoveTask, Pool!taskVars, Pool!callerVars, Owned, Transient
  <2>2. Gone' = Gone
    BY <1>1, <2>1, SchedulerTaskAssumption DEF Gone, InPool, PoolView!Pointers
  <2>3. Transient'
    BY <1>1, <2>1 DEF Owned, Transient
  <2> QED
    BY <2>1, <2>2, <2>3
<1>4. ASSUME NEW s \in Slots, Pool!FinishWorker(s)
      PROVE  fresh' = fresh /\ Gone' = Gone /\ Transient'
  <2>1. /\ tmp' = [tmp EXCEPT ![s] = NoTask] /\ tmp[s] # NoTask
        /\ destroyed' = destroyed \cup {tmp[s]}
        /\ wpc' = [wpc EXCEPT ![s] = "done"]
        /\ UNCHANGED <<fresh, task_, arg, cpc>>
    BY <1>4
       DEF Pool!FinishWorker, Pool!memberVars, Pool!callerVars, Owned,
           PoolView!ThreadInv, PoolView!SlotInv, PoolView!CallbackHasTask
  <2>2. Gone' = Gone
    BY <1>1, <2>1, SchedulerTaskAssumption DEF Gone, InPool, PoolView!Pointers
  <2>3. Transient'
    BY <1>1, <2>1 DEF Owned, Transient
  <2> QED
    BY <2>1, <2>2, <2>3
<1> QED
  BY <1>2, <1>3, <1>4

LEMMA PoolStepOwned == ASSUME Owned, PoolStep PROVE Owned'
<1>1. Pool!ThreadStep /\ UNCHANGED <<queueVars, schedVars>>
  BY DEF PoolStep
<1>2. fresh' = fresh /\ Gone' = Gone /\ Transient'
  BY <1>1, OwnerPlaces, WorkerPlaces, MovePlaces
     DEF Pool!ThreadStep, Pool!OwnerStep, Pool!WorkerProgress
<1>3. Outside' = Outside
  BY <1>1, <1>2 DEF Outside, queueVars
<1>4. PoolView!ThreadInv'
  BY <1>1, <1>3, PoolStepSeen, PoolSees DEF Owned
<1>5. fate' \in {"alive", "segfault", "terminated"}
  BY <1>4 DEF PoolView!ThreadInv, PoolView!TypeOK
<1>6. QueueView!TypeOK' /\ QueueView!UniqueOwner'
  BY <1>1, <1>2, <1>5, QueueRests DEF Owned
<1> QED
  BY <1>2, <1>4, <1>6 DEF Owned

LEMMA ShutdownSlotOwned ==
    ASSUME Owned, doomed \in 0..PoolSize, ShutdownSlot
    PROVE  Owned'
<1>1. doomed \in Slots /\ Pool!shutdown(doomed) /\ UNCHANGED queueVars
  BY PoolAssumption DEF ShutdownSlot, Slots
<1>2. /\ UNCHANGED <<task_, tmp, arg, destroyed, fresh, wpc, fate>>
      /\ cpc[Runner] = "idle"
  BY <1>1 DEF Pool!shutdown, Pool!memberVars, Pool!workerVars, Pool!taskVars
<1>4. Gone' = Gone /\ Transient'
  BY <1>2, PlacesKept
<1>5. Outside' = Outside
  BY <1>1, <1>2 DEF Outside, queueVars
<1>6. PoolView!shutdown(doomed)
  BY <1>1, <1>5
     DEF Pool!shutdown, PoolView!shutdown, Pool!Alive, PoolView!Alive,
         Pool!memberVars, PoolView!memberVars, Pool!workerVars, PoolView!workerVars,
         Pool!taskVars, PoolView!taskVars
<1>7. PoolView!ThreadInv'
  BY <1>1, <1>6, PoolSees DEF Owned, PoolView!Next, PoolView!ClientCall
<1>8. fate' \in {"alive", "segfault", "terminated"}
  BY <1>7 DEF PoolView!ThreadInv, PoolView!TypeOK
<1>9. QueueView!TypeOK' /\ QueueView!UniqueOwner'
  BY <1>1, <1>2, <1>4, <1>8, QueueRests DEF Owned
<1> QED
  BY <1>4, <1>7, <1>9 DEF Owned

\* A dispatch is a release for the queue and a client's call for the pool.
LEMMA DispatchOwned ==
    ASSUME Owned, RunnerCalls, unused_index \in Slots, Dispatch
    PROVE  Owned'
<1>1. CASE next_task = NoTask
  BY <1>1, NeitherSide DEF Dispatch, queueVars, taskVars
<1>2. CASE next_task # NoTask
  <2>1. /\ Pool!set_task_and_run(unused_index, held[Runner])
        /\ held' = [held EXCEPT ![Runner] = NoTask] /\ fate = "alive"
        /\ UNCHANGED <<queue_, call, timed, expired, fresh, fate>>
        /\ call[Runner] = "idle" /\ held[Runner] # NoTask /\ Runner \in Consumers
    BY <1>2
       DEF Dispatch, Go, Alive, next_task, Pool!set_task_and_run, RunnerCalls, Consumers
  <2>2. /\ cpc[Runner] = "idle" /\ arg' = [arg EXCEPT ![Runner] = held[Runner]]
        /\ cpc' = [cpc EXCEPT ![Runner] = "assign"]
        /\ UNCHANGED <<task_, tmp, wpc, destroyed, callbacks, killed>>
    BY <2>1 DEF Pool!set_task_and_run, Pool!memberVars, Pool!workerVars
  <2>3. /\ arg \in [{Runner} -> PoolView!Pointers] /\ arg[Runner] = NoTask
        /\ cpc \in [{Runner} -> PoolView!CallerPCs]
    BY <2>2 DEF Owned, Transient, PoolView!ThreadInv, PoolView!TypeOK
  <2>4. held[Runner] \in Tasks /\ held[Runner] \in Outside
    BY <2>1 DEF Owned, QueueView!TypeOK, QueueView!Pointers, Outside
  <2>5. Gone' = Gone \cup {held[Runner]}
    BY <2>2, <2>3, <2>4, SchedulerTaskAssumption DEF Gone, InPool
  <2>6. QueueView!Release(Runner)
    BY <2>1, <2>5 DEF QueueView!Release, QueueView!waitVars, QueueView!Alive
  <2>7. QueueView!TypeOK' /\ QueueView!UniqueOwner'
    BY <2>1, <2>6, QueueSees DEF Owned, QueueView!Next
  <2>8. Outside' = Outside \ {held[Runner]}
    <3>1. (QueueView!TypeOK /\ QueueView!UniqueOwner => Outside = Tasks \ Gone)'
      BY TwoSides, PTL
    <3> QED
      BY <2>5, <2>7, <3>1, TwoSides DEF Owned
  <2>9. PoolView!set_task_and_run(unused_index, held[Runner])
    BY <2>1
       DEF Pool!set_task_and_run, PoolView!set_task_and_run, Pool!Alive,
           PoolView!Alive, Pool!memberVars, PoolView!memberVars, Pool!workerVars,
           PoolView!workerVars
  <2>10. PoolView!ThreadInv'
    BY <2>4, <2>8, <2>9, PoolSees DEF Owned, PoolView!Next, PoolView!ClientCall
  <2>11. Transient'
    BY <2>2, <2>3 DEF Owned, Transient
  <2> QED
    BY <2>7, <2>10, <2>11 DEF Owned
<1> QED
  BY <1>1, <1>2

-----------------------------------------------------------------------------
(* Every step keeps the ownership, and with it each task has one owner.    *)

LEMMA SchedTypesStep == ASSUME LoopInv, SchedTypes, [Next]_vars PROVE SchedTypes'
<1>1. unused_index' \in Slots /\ doomed' \in 0..PoolSize
  BY LoopInvStep DEF LoopInv, LoopTypes
<1>2. CASE startup
  BY <1>2, SessionsAssumption DEF startup, Go, dtorVars, SchedTypes
<1>3. CASE Dispatch
  <2>1. session \in 0..MaxSessions /\ dispatched \in [Tasks -> 0..MaxSessions]
    BY DEF SchedTypes
  <2>2. dispatched' \in [Tasks -> 0..MaxSessions]
    BY <1>3, <2>1 DEF Dispatch
  <2> QED
    BY <1>1, <1>3, <2>2 DEF Dispatch, Go, dtorVars, SchedTypes
<1>4. CASE StoreUnpaused \/ StoreUnkilled \/ CallPop \/ PopReturns \/ AbandonTask
           \/ StartReturned
  BY <1>4
     DEF StoreUnpaused, StoreUnkilled, CallPop, PopReturns, AbandonTask, StartReturned,
         Go, dtorVars, SchedTypes
<1>5. CASE LoadStep \/ ScanSlot
  BY <1>1, <1>5 DEF LoadStep, ScanSlot, Go, dtorVars, SchedTypes
<1>6. CASE QueueStep \/ PoolStep \/ \E t \in Tasks \cup {NoTask} : queue_task(t)
  BY <1>6 DEF QueueStep, PoolStep, queue_task, schedVars, loopVars, dtorVars, SchedTypes
<1>7. ASSUME NEW c \in Clients, NEW u \in UUIDs, kill_task(c, u) PROVE SchedTypes'
  BY <1>7 DEF kill_task, loopVars, dtorVars, SchedTypes
<1>8. ASSUME NEW c \in Clients,
             \/ pause(c) \/ resume(c) \/ shutdown(c) \/ ShutdownStoresKill(c)
             \/ KillTaskReturns(c)
      PROVE  SchedTypes'
  BY <1>8
     DEF pause, resume, shutdown, ShutdownStoresKill, KillTaskReturns, loopVars,
         dtorVars, SchedTypes
<1>9. CASE Destroy \/ DestructorStep
  BY <1>1, <1>9
     DEF Destroy, DestructorStep, ShutdownSlot, SlotGone, QueueGone, loopVars, SchedTypes
<1>10. CASE UNCHANGED vars
  BY <1>10 DEF vars, schedVars, loopVars, dtorVars, SchedTypes
<1> QED
  BY <1>2, <1>3, <1>4, <1>5, <1>6, <1>7, <1>8, <1>9, <1>10
     DEF Next, RunnerStep, ClientCall, ClientStep

LEMMA OwnedStep == ASSUME LoopInv, Owned, CleanInv, [Next]_vars PROVE Owned'
<1>1. RunnerCalls /\ unused_index \in Slots /\ doomed \in 0..PoolSize
  BY DEF LoopInv, LoopTypes
<1>2. CASE \/ startup \/ StoreUnpaused \/ StoreUnkilled \/ LoadStep \/ PopReturns
           \/ ScanSlot \/ StartReturned \/ Destroy \/ SlotGone \/ UNCHANGED vars
           \/ \E c \in Clients : pause(c) \/ resume(c) \/ shutdown(c) \/ ShutdownStoresKill(c)
  BY <1>2, NeitherSide
     DEF startup, StoreUnpaused, StoreUnkilled, LoadStep, PopReturns, ScanSlot,
         StartReturned, Destroy, SlotGone, pause, resume, shutdown,
         ShutdownStoresKill, vars
<1>3. CASE QueueGone
  <2>1. \A c \in Consumers : call[c] = "idle"
    BY <1>1, <1>3
       DEF QueueGone, CleanInv, HandsEmpty, Destruction, RunnerCalls, Consumers
  <2> QED
    BY <1>3, <2>1, QueueGoneOwned
<1> QED
  BY <1>1, <1>2, <1>3, CallPopOwned, QueueStepOwned, queue_taskOwned, kill_taskOwned,
     AbandonOwned, KillTaskReturnsOwned, PoolStepOwned, ShutdownSlotOwned, DispatchOwned
     DEF Next, RunnerStep, ClientCall, ClientStep, DestructorStep

LEMMA OwnedInit == ASSUME Init PROVE Owned /\ SchedTypes
<1>1. Queue!Init /\ Pool!ThreadInit
  BY DEF Init
<1>2. /\ fresh = Tasks /\ destroyed = {} /\ InPool = {} /\ Outside = Tasks /\ Gone = {}
  BY <1>1, SchedulerTaskAssumption
     DEF Queue!Init, Pool!ThreadInit, InPool, Outside, Gone, Consumers
<1>3. QueueView!Init /\ PoolView!Init
  BY <1>1, <1>2
     DEF Queue!Init, Pool!ThreadInit, QueueView!Init, PoolView!Init,
         PoolView!ThreadInit, Consumers
<1>4. QueueView!TypeOK
  BY <1>3 DEF QueueView!Init, QueueView!TypeOK, QueueView!Pointers
<1>5. QueueView!UniqueOwner
  BY <1>3, SchedulerTaskAssumption
     DEF QueueView!Init, QueueView!UniqueOwner, QueueView!QueueHasNoDuplicate,
         QueueView!HeldOnce, QueueView!OwnersDisjoint, QueueView!NoLeak
<1>6. PoolView!ThreadInv
  BY <1>3, ViewAssumptions, PoolView!InitialThreadInv
<1>7. Transient
  BY <1>1 DEF Pool!ThreadInit, Transient
<1>8. SchedTypes
  BY PoolAssumption, SessionsAssumption DEF Init, SchedTypes, Slots
<1> QED
  BY <1>4, <1>5, <1>6, <1>7, <1>8 DEF Owned

\* From the two views: every task is at exactly one place.
LEMMA OneOwner == ASSUME Owned, SchedTypes PROVE TaskHasOneOwner
<1>1. TypeOK
  <2>1. Queue!TypeOK
    BY DEF Owned, QueueView!TypeOK, Queue!TypeOK, Gone, Consumers, QueueView!Pointers,
           Queue!Pointers
  <2>2. Pool!TypeOK
    BY <2>1
       DEF Owned, PoolView!ThreadInv, PoolView!TypeOK, Pool!TypeOK, Queue!TypeOK,
           PoolView!Pointers, Pool!Pointers, PoolView!WorkerPCs, Pool!WorkerPCs,
           PoolView!CallerPCs, Pool!CallerPCs
  <2> QED
    BY <2>1, <2>2 DEF TypeOK, SchedTypes
<1>2. ASSUME NEW t \in Tasks PROVE Cardinality(Owners(t)) = 1
  <2>1. /\ Outside = Tasks \ Gone /\ t # NoTask
        /\ (t \in InPool => t \notin destroyed)
    BY TwoSides, SchedulerTaskAssumption
       DEF Owned, PoolView!ThreadInv, PoolView!ReportInv, PoolView!OnePlace,
           PoolView!ArgApart, PoolView!TaskApart, PoolView!TmpApart, InPool
  <2>2. /\ arg[Runner] # t
        /\ \A s \in Slots : task_[s] # t /\ tmp[s] # t
        /\ t \notin destroyed
    <=> t \notin Gone
    BY DEF Gone, InPool
  <2>3. /\ t \notin fresh
        /\ \A i \in DOMAIN queue_ : queue_[i] # t
        /\ \A c \in Consumers : held[c] # t
    <=> t \notin Outside
    BY DEF Outside
  <2>4. CASE t \in fresh
    <3>1. /\ \A i \in DOMAIN queue_ : queue_[i] # t
          /\ \A c \in Consumers : held[c] # t
      BY <2>1, <2>4
         DEF Owned, QueueView!UniqueOwner, QueueView!OwnersDisjoint
    <3>2. Owners(t) = {<<"client">>}
      BY <2>1, <2>2, <2>3, <2>4, <3>1 DEF Owners, Consumers
    <3> QED
      BY <3>2, FS_Singleton
  <2>5. ASSUME NEW i \in DOMAIN queue_, queue_[i] = t
        PROVE  Cardinality(Owners(t)) = 1
    <3>1. /\ t \notin fresh
          /\ \A j \in DOMAIN queue_ : queue_[j] = t <=> j = i
          /\ \A c \in Consumers : held[c] # t
      BY <2>1, <2>5
         DEF Owned, QueueView!UniqueOwner, QueueView!OwnersDisjoint,
             QueueView!QueueHasNoDuplicate
    <3>2. {j \in DOMAIN queue_ : queue_[j] = t} = {i}
      BY <3>1
    <3>3. Owners(t) = {<<"queue", i>>}
      BY <2>1, <2>2, <2>3, <2>5, <3>1, <3>2 DEF Owners, Consumers
    <3> QED
      BY <3>3, FS_Singleton
  <2>6. ASSUME NEW c \in Consumers, held[c] = t
        PROVE  Cardinality(Owners(t)) = 1
    <3>1. /\ t \notin fresh
          /\ \A j \in DOMAIN queue_ : queue_[j] # t
          /\ \A d \in Consumers : held[d] = t <=> d = c
      BY <2>1, <2>6
         DEF Owned, QueueView!UniqueOwner, QueueView!OwnersDisjoint,
             QueueView!HeldOnce
    <3>2. {d \in Consumers : held[d] = t} = {c}
      BY <3>1
    <3>3. Owners(t) = {<<"held", c>>}
      BY <2>1, <2>2, <2>3, <2>6, <3>1, <3>2 DEF Owners, Consumers
    <3> QED
      BY <3>3, FS_Singleton
  <2>7. CASE arg[Runner] = t
    <3>1. \A s \in Slots : task_[s] # t /\ tmp[s] # t
      BY <2>1, <2>7
         DEF Owned, PoolView!ThreadInv, PoolView!ReportInv, PoolView!OnePlace,
             PoolView!ArgApart
    <3>2. t \in InPool /\ t \notin Outside
      BY <2>1, <2>7 DEF InPool, Gone
    <3>3. Owners(t) = {<<"argument">>}
      BY <2>1, <2>3, <2>7, <3>1, <3>2 DEF Owners, Consumers
    <3> QED
      BY <3>3, FS_Singleton
  <2>8. ASSUME NEW s \in Slots, task_[s] = t
        PROVE  Cardinality(Owners(t)) = 1
    <3>1. /\ arg[Runner] # t
          /\ \A r \in Slots : (task_[r] = t <=> r = s) /\ tmp[r] # t
      BY <2>1, <2>8
         DEF Owned, PoolView!ThreadInv, PoolView!ReportInv, PoolView!OnePlace,
             PoolView!ArgApart, PoolView!TaskApart
    <3>2. t \in InPool /\ t \notin Outside
      BY <2>1, <2>8 DEF InPool, Gone
    <3>3. {r \in Slots : task_[r] = t} = {s}
      BY <3>1
    <3>4. Owners(t) = {<<"slot", s>>}
      BY <2>1, <2>3, <2>8, <3>1, <3>2, <3>3 DEF Owners, Consumers
    <3> QED
      BY <3>4, FS_Singleton
  <2>9. ASSUME NEW s \in Slots, tmp[s] = t
        PROVE  Cardinality(Owners(t)) = 1
    <3>1. /\ arg[Runner] # t
          /\ \A r \in Slots : (tmp[r] = t <=> r = s) /\ task_[r] # t
      BY <2>1, <2>9
         DEF Owned, PoolView!ThreadInv, PoolView!ReportInv, PoolView!OnePlace,
             PoolView!ArgApart, PoolView!TaskApart, PoolView!TmpApart
    <3>2. t \in InPool /\ t \notin Outside
      BY <2>1, <2>9 DEF InPool, Gone
    <3>3. {r \in Slots : tmp[r] = t} = {s}
      BY <3>1
    <3>4. Owners(t) = {<<"worker", s>>}
      BY <2>1, <2>3, <2>9, <3>1, <3>2, <3>3 DEF Owners, Consumers
    <3> QED
      BY <3>4, FS_Singleton
  <2>10. CASE t \in destroyed
    <3>1. t \notin InPool /\ t \notin Outside
      BY <2>1, <2>10 DEF Gone
    <3>2. Owners(t) = {<<"nobody">>}
      BY <2>3, <2>10, <3>1 DEF Owners, InPool, Consumers
    <3> QED
      BY <3>2, FS_Singleton
  <2> QED
    BY <2>1, <2>4, <2>5, <2>6, <2>7, <2>8, <2>9, <2>10 DEF Outside, Gone, InPool
<1> QED
  BY <1>1, <1>2 DEF TaskHasOneOwner

-----------------------------------------------------------------------------
(* The steps outside the pool on the way to destruction.                   *)

\* The steps that do not belong to the pool: they leave its state alone.
NotPool ==
    \/ startup \/ StoreUnpaused \/ StoreUnkilled \/ LoadStep \/ CallPop \/ PopReturns
    \/ AbandonTask \/ ScanSlot \/ StartReturned \/ QueueStep \/ ClientCall
    \/ \E c \in Clients : ClientStep(c)
    \/ Destroy \/ SlotGone \/ QueueGone
    \/ Dispatch /\ next_task = NoTask

LEMMA NotPoolFrame ==
    ASSUME NotPool
    PROVE  /\ UNCHANGED <<poolVars, callbacks, dispatched, doomed>>
           /\ fate' # "alive" => fate' = "segfault" \/ fate' = fate
           /\ fate' = "alive" => fate = "alive"
<1>1. CASE \/ startup \/ StoreUnpaused \/ StoreUnkilled \/ LoadStep \/ PopReturns
           \/ ScanSlot \/ StartReturned \/ Destroy \/ SlotGone \/ QueueGone
           \/ AbandonTask \/ (Dispatch /\ next_task = NoTask)
  BY <1>1
     DEF startup, StoreUnpaused, StoreUnkilled, LoadStep, PopReturns, ScanSlot,
         StartReturned, Destroy, SlotGone, QueueGone, AbandonTask, Dispatch,
         taskVars, loopVars, dtorVars
<1>2. CASE CallPop \/ QueueStep
  BY <1>2
     DEF CallPop, QueueStep, Queue!wait_for_and_pop, Queue!StartWait, Queue!PopInto,
         Queue!Expire, Queue!SpuriousWakeup, Queue!Recheck, schedVars, loopVars, dtorVars
<1>3. CASE ClientCall \/ \E c \in Clients : ClientStep(c)
  BY <1>3
     DEF ClientCall, ClientStep, queue_task, Queue!push, kill_task,
         Queue!remove_task_from_queue, Queue!Alive, KillTaskReturns, Queue!Release,
         pause, resume, shutdown, ShutdownStoresKill, taskVars, schedVars, loopVars,
         dtorVars
<1> QED
  BY <1>1, <1>2, <1>3 DEF NotPool

LEMMA NotPoolSlots ==
    ASSUME ReportedDispatched, SlotEmptied, OnItsWay, NotPool
    PROVE  ReportedDispatched' /\ SlotEmptied' /\ OnItsWay'
<1>1. /\ UNCHANGED <<poolVars, callbacks, dispatched>>
      /\ fate' = "alive" => fate = "alive"
  BY NotPoolFrame
<1>2. InPool' = InPool
  BY <1>1 DEF InPool, poolVars
<1> QED
  BY <1>1, <1>2 DEF ReportedDispatched, SlotEmptied, OnItsWay, poolVars, Alive

\* The runner and the clients let go of their tasks where they say so.
LEMMA HandsEmptyStep ==
    ASSUME LoopInv, Owned, SchedTypes, HandsEmpty, [Next]_vars
    PROVE  HandsEmpty'
<1>1. /\ RunnerCalls /\ Runner \notin Clients
      /\ held \in [Consumers -> QueueView!Pointers]
      /\ client \in [Clients -> {"idle", "stopping", "killing"}]
      /\ call \in [Consumers -> {"idle", "waiting", "woken"}]
      /\ Runner \in Consumers /\ Clients \subseteq Consumers
  BY RunnerAssumption DEF LoopInv, Owned, QueueView!TypeOK, Consumers, SchedTypes
<1>2. CASE \/ startup \/ StoreUnpaused \/ StoreUnkilled \/ LoadStep \/ PopReturns
           \/ ScanSlot \/ StartReturned
  BY <1>2
     DEF startup, StoreUnpaused, StoreUnkilled, LoadStep, PopReturns, ScanSlot,
         StartReturned, Go, queueVars, HandsEmpty, next_task
<1>3. CASE \/ Destroy \/ DestructorStep \/ PoolStep \/ UNCHANGED vars
           \/ \E c \in Clients : pause(c) \/ resume(c)
  BY <1>3
     DEF Destroy, DestructorStep, ShutdownSlot, SlotGone, QueueGone, PoolStep, vars,
         queueVars, schedVars, loopVars, pause, resume, HandsEmpty
<1>4. CASE AbandonTask \/ Dispatch
  <2>1. /\ held' = held \/ held' = [held EXCEPT ![Runner] = NoTask]
        /\ spc' # "outer" => spc' \in {"starting", "inner"}
        /\ spc' = "outer" => held' = [held EXCEPT ![Runner] = NoTask]
        /\ UNCHANGED <<client, call>>
    BY <1>4 DEF AbandonTask, Dispatch, Go
  <2> QED
    BY <1>1, <2>1 DEF HandsEmpty
<1>5. CASE CallPop
  <2>1. /\ spc' = "popping" /\ UNCHANGED client
        /\ held' = held \/ \E x : held' = [held EXCEPT ![Runner] = x]
        /\ call' = call \/ \E x : call' = [call EXCEPT ![Runner] = x]
    BY <1>5 DEF CallPop, Go, Queue!wait_for_and_pop, Queue!StartWait, Queue!PopInto,
                Queue!waitVars
  <2> QED
    BY <1>1, <2>1 DEF HandsEmpty
<1>6. CASE QueueStep
  <2>1. /\ call[Runner] # "idle" /\ UNCHANGED <<client, spc>>
        /\ held' = held \/ \E x : held' = [held EXCEPT ![Runner] = x]
        /\ call' = call \/ \E x : call' = [call EXCEPT ![Runner] = x]
    BY <1>6 DEF QueueStep, Queue!Expire, Queue!SpuriousWakeup, Queue!Recheck,
                Queue!PopInto, schedVars, loopVars
  <2>2. spc' = "popping"
    BY <1>1, <2>1 DEF RunnerCalls
  <2> QED
    BY <1>1, <2>1, <2>2 DEF HandsEmpty
<1>7. CASE \E t \in Tasks \cup {NoTask} : queue_task(t)
  BY <1>1, <1>7
     DEF queue_task, Queue!push, Queue!NotifyAll, schedVars, loopVars, HandsEmpty,
         Consumers
<1>8. ASSUME NEW c \in Clients, NEW u \in UUIDs, kill_task(c, u) PROVE HandsEmpty'
  <2>1. /\ client' = [client EXCEPT ![c] = "killing"] /\ UNCHANGED <<spc, call>>
        /\ held' = held \/ \E x : held' = [held EXCEPT ![c] = x]
    BY <1>8 DEF kill_task, Queue!remove_task_from_queue, Queue!MoveMatches,
                Queue!waitVars, loopVars
  <2> QED
    BY <1>1, <2>1 DEF HandsEmpty
<1>9. ASSUME NEW c \in Clients, KillTaskReturns(c) PROVE HandsEmpty'
  <2>1. /\ client' = [client EXCEPT ![c] = "idle"] /\ UNCHANGED <<spc, call>>
        /\ \/ held' = held /\ held[c] = NoTask
           \/ held' = [held EXCEPT ![c] = NoTask]
    BY <1>9 DEF KillTaskReturns, Queue!Release, Queue!waitVars, loopVars, queueVars
  <2> QED
    BY <1>1, <2>1 DEF HandsEmpty
<1>10. ASSUME NEW c \in Clients, shutdown(c) \/ ShutdownStoresKill(c) PROVE HandsEmpty'
  <2>1. /\ UNCHANGED <<spc, call, held>> /\ client[c] # "killing"
        /\ \E x : client' = [client EXCEPT ![c] = x]
    BY <1>10 DEF shutdown, ShutdownStoresKill, ClientMayCall, loopVars, queueVars
  <2> QED
    BY <1>1, <2>1 DEF HandsEmpty
<1> QED
  BY <1>2, <1>3, <1>4, <1>5, <1>6, <1>7, <1>8, <1>9, <1>10
     DEF Next, RunnerStep, ClientCall, ClientStep

\* Steps outside the pool and the destructor's control of it.
LEMMA NotPoolControl ==
    ASSUME LoopInv, CleanInv, NotPool
    PROVE  PoolCalls' /\ Destruction'
<1>1. UNCHANGED <<poolVars, doomed>> /\ (fate' = "alive" => fate = "alive")
  BY NotPoolFrame
<1>2. PoolCalls /\ Destruction /\ RunnerCalls
  BY DEF CleanInv, LoopInv
<1>3. spc = "starting" => spc' = "starting" \/ cpc[Runner] = "idle"
  BY DEF NotPool, startup, StoreUnpaused, StoreUnkilled, LoadStep, CallPop, PopReturns,
         AbandonTask, ScanSlot, StartReturned, Dispatch, Go, QueueStep, ClientCall,
         queue_task, kill_task, pause, resume, shutdown, ClientStep,
         ShutdownStoresKill, KillTaskReturns, Destroy, SlotGone, QueueGone,
         schedVars, loopVars
<1>4. \/ dtor' = dtor
      \/ /\ dtor = "no" /\ dtor' = "slots" /\ spc' = "out"
         /\ \A c \in Clients : client'[c] = "idle"
      \/ dtor = "joining" /\ dtor' = "slots" /\ cpc[Runner] = "idle"
      \/ /\ dtor = "slots" /\ dtor' = "gone" /\ doomed = 0 /\ queue_' = <<>>
         /\ fate' = "alive"
  BY DEF NotPool, startup, StoreUnpaused, StoreUnkilled, LoadStep, CallPop, PopReturns,
         AbandonTask, ScanSlot, StartReturned, Dispatch, QueueStep, ClientCall,
         queue_task, kill_task, pause, resume, shutdown, ClientStep,
         ShutdownStoresKill, KillTaskReturns, Destroy, SlotGone, QueueGone,
         schedVars, loopVars, dtorVars, Alive
<1>5. dtor # "no" => SlotGone \/ QueueGone
  <2>1. SUFFICES ASSUME dtor # "no", ~(SlotGone \/ QueueGone) PROVE FALSE
    OBVIOUS
  <2>2. spc = "out" /\ call[Runner] = "idle" /\ \A c \in Clients : client[c] = "idle"
    BY <1>2, <2>1 DEF Destruction, RunnerCalls
  <2> QED
    BY <2>1, <2>2
       DEF NotPool, startup, StoreUnpaused, StoreUnkilled, LoadStep, CallPop,
           PopReturns, AbandonTask, ScanSlot, StartReturned, Dispatch, Go, QueueStep,
           Queue!Expire, Queue!SpuriousWakeup, Queue!Recheck, ClientCall, queue_task,
           kill_task, pause, resume, shutdown, ClientMayCall, ClientStep,
           ShutdownStoresKill, KillTaskReturns, Destroy
<1>6. dtor # "no" => UNCHANGED <<spc, client, fate>> /\ (queue_ = <<>> => queue_' = <<>>)
  BY <1>5 DEF SlotGone, QueueGone, loopVars, queueVars
<1>7. PoolCalls'
  BY <1>1, <1>2, <1>3, <1>4 DEF PoolCalls, poolVars
<1>8. Destruction'
  <2>1. \A s \in Slots : ~(s > PoolSize)
    BY PoolAssumption DEF Slots
  <2>2. ASSUME dtor' # "no"
        PROVE  /\ spc' = "out"
               /\ \A c \in Clients : client'[c] = "idle"
               /\ \A s \in Slots : s > doomed' =>
                            \/ thread_'[s] = "none"
                            \/ /\ dtor' = "joining" /\ cpc'[Runner] # "idle"
                               /\ s = doomed' + 1
    BY <1>1, <1>2, <1>4, <1>6, <2>1, <2>2 DEF Destruction, poolVars
  <2>3. dtor' = "gone" => doomed' = 0 /\ queue_' = <<>> /\ Alive'
    BY <1>1, <1>2, <1>4, <1>6 DEF Destruction, Alive
  <2>4. /\ dtor' = "no" => doomed' = PoolSize
        /\ dtor' = "joining" => slot'[Runner] = doomed' + 1
    BY <1>1, <1>2, <1>4 DEF Destruction, poolVars
  <2> QED
    BY <2>2, <2>3, <2>4 DEF Destruction
<1> QED
  BY <1>7, <1>8

-----------------------------------------------------------------------------
(* The steps of the pool on the way to destruction.                        *)

LEMMA AppendNotEmpty ==
    ASSUME NEW S, NEW q \in Seq(S), NEW x \in S
    PROVE  Append(q, x) # <<>>
<1>1. Len(Append(q, x)) = Len(q) + 1 /\ Len(q) \in Nat
  OBVIOUS
<1>2. Len(<<>>) = 0
  OBVIOUS
<1> QED
  BY <1>1, <1>2

LEMMA PoolTypesHold ==
    ASSUME Owned
    PROVE  /\ cpc \in [{Runner} -> PoolView!CallerPCs]
           /\ wpc \in [Slots -> PoolView!WorkerPCs]
           /\ arg \in [{Runner} -> Tasks \cup {NoTask}]
           /\ slot \in [{Runner} -> Slots]
           /\ after \in [{Runner} -> {"idle", "join"}]
           /\ task_ \in [Slots -> Tasks \cup {NoTask}]
           /\ tmp \in [Slots -> Tasks \cup {NoTask}]
           /\ thread_ \in [Slots -> {"none", "joinable"}]
           /\ callbacks \in [Tasks -> Seq(BOOLEAN)] /\ status \in [Slots -> BOOLEAN]
           /\ \A s \in Slots : thread_[s] = "none" => wpc[s] = "off"
           /\ \A s \in Slots : wpc[s] = "callback" => tmp[s] # NoTask
  BY DEF Owned, PoolView!ThreadInv, PoolView!TypeOK, PoolView!SlotInv,
         PoolView!NoWorkerWithoutThread, PoolView!CallbackHasTask, PoolView!Pointers

\* After the destructor nothing is left to take a step of the pool.
LEMMA NothingAfterDestruction ==
    ASSUME Owned, CleanInv, Pool!ThreadStep
    PROVE  dtor # "gone"
<1>1. SUFFICES ASSUME dtor = "gone" PROVE FALSE
  OBVIOUS
<1>2. cpc[Runner] = "idle"
  BY <1>1, PoolTypesHold DEF CleanInv, Destruction, PoolCalls, PoolView!CallerPCs
<1>3. \A s \in Slots : wpc[s] = "off"
  <2>1. \A s \in Slots : s > 0
    BY PoolAssumption DEF Slots
  <2> QED
    BY <1>1, <1>2, <2>1, PoolTypesHold DEF CleanInv, Destruction
<1>4. ~Pool!OwnerStep /\ ~Pool!SpuriousReturn /\ ~Pool!CallerStep(Runner)
  BY <1>2
     DEF Pool!OwnerStep, Pool!AssignTask, Pool!SpawnThread, Pool!EnterWait,
         Pool!ReturnStarted, Pool!Join, Pool!SpuriousReturn, Pool!CallerStep,
         Pool!TestTask, Pool!KillTask, Pool!StoreInterrupt
<1>5. \A s \in Slots : ~(Pool!WorkerProgress(s) \/ Pool!LockForStage(s) \/ Pool!UseAfterFree(s))
  BY <1>3
     DEF Pool!WorkerProgress, Pool!Notify, Pool!CheckTask, Pool!MarkRunning,
         Pool!RunStage, Pool!PollInterrupt, Pool!EndStage, Pool!MoveTask,
         Pool!ClearRunning, Pool!complete, Pool!FinishWorker, Pool!LockForStage,
         Pool!UseAfterFree
<1> QED
  BY <1>4, <1>5 DEF Pool!ThreadStep

\* What is left to show for a step of the pool.
PoolPart == ReportedDispatched /\ PoolCalls /\ Destruction /\ SlotEmptied /\ OnItsWay

\* A worker's step that moves no task and makes no callback.
LEMMA WorkerClean ==
    ASSUME Owned, PoolPart, UNCHANGED schedVars, UNCHANGED queueVars, dtor # "gone",
           NEW s \in Slots,
           \/ Pool!Notify(s) \/ Pool!CheckTask(s) \/ Pool!MarkRunning(s)
           \/ Pool!LockForStage(s) \/ Pool!RunStage(s) \/ Pool!PollInterrupt(s)
           \/ Pool!EndStage(s) \/ Pool!ClearRunning(s) \/ Pool!UseAfterFree(s)
    PROVE  PoolPart'
<1>1. /\ UNCHANGED <<task_, tmp, arg, thread_, slot, after, callbacks>>
      /\ fate = "alive"
      /\ cpc' = cpc \/ (cpc[Runner] = "wait" /\ cpc' = [cpc EXCEPT ![Runner] = "woken"])
  BY DEF Pool!Notify, Pool!CheckTask, Pool!MarkRunning, Pool!LockForStage,
         Pool!RunStage, Pool!PollInterrupt, Pool!EndStage, Pool!ClearRunning,
         Pool!UseAfterFree, Pool!memberVars, Pool!workerVars, Pool!callerVars,
         Pool!taskVars, Pool!Alive
<1>2. \/ wpc' = wpc
      \/ /\ \E pc \in {"check", "mark", "lock", "run", "poll", "end", "move"} :
                wpc' = [wpc EXCEPT ![s] = pc]
      \/ task_[s] = NoTask /\ wpc' = [wpc EXCEPT ![s] = "done"]
      \/ wpc[s] = "clear" /\ wpc' = [wpc EXCEPT ![s] = "complete"]
  BY DEF Pool!Notify, Pool!CheckTask, Pool!MarkRunning, Pool!LockForStage,
         Pool!RunStage, Pool!PollInterrupt, Pool!EndStage, Pool!ClearRunning,
         Pool!UseAfterFree, Pool!workerVars
<1>3. UNCHANGED <<spc, dtor, doomed, client, dispatched>> /\ InPool' = InPool
  BY <1>1 DEF schedVars, loopVars, dtorVars, InPool
<1>4. /\ cpc'[Runner] \in {cpc[Runner], "woken"}
      /\ cpc'[Runner] # cpc[Runner] => cpc[Runner] = "wait"
  BY <1>1, PoolTypesHold
<1>5. ReportedDispatched'
  BY <1>1, <1>3 DEF PoolPart, ReportedDispatched
<1>6. PoolCalls'
  BY <1>1, <1>3, <1>4 DEF PoolPart, PoolCalls
<1>7. Destruction'
  BY <1>1, <1>3, <1>4 DEF PoolPart, Destruction
<1>8. SlotEmptied'
  BY <1>1, <1>2, <1>4, PoolTypesHold DEF PoolPart, SlotEmptied
<1>9. OnItsWay'
  BY <1>1, <1>2, <1>3, <1>4, PoolTypesHold DEF PoolPart, OnItsWay, Alive
<1> QED
  BY <1>5, <1>6, <1>7, <1>8, <1>9 DEF PoolPart

LEMMA completeClean ==
    ASSUME Owned, PoolPart, UNCHANGED schedVars, UNCHANGED queueVars, dtor # "gone",
           NEW s \in Slots, Pool!complete(s)
    PROVE  PoolPart'
<1>1. /\ UNCHANGED <<task_, tmp, arg, thread_, slot, after, cpc>>
      /\ fate = "alive" /\ wpc[s] = "complete"
      /\ UNCHANGED <<spc, dtor, doomed, client, dispatched>>
  BY DEF Pool!complete, Pool!memberVars, Pool!callerVars, Pool!Alive, schedVars,
         loopVars, dtorVars
<1>2. InPool' = InPool
  BY <1>1 DEF InPool
<1>3. \/ tmp[s] = NoTask /\ UNCHANGED <<wpc, callbacks>>
      \/ /\ tmp[s] # NoTask /\ wpc' = [wpc EXCEPT ![s] = "callback"]
         /\ callbacks' = [callbacks EXCEPT ![tmp[s]] = Append(@, status[s])]
  BY DEF Pool!complete
<1>4. /\ \A t \in Tasks : callbacks'[t] # <<>> => callbacks[t] # <<>> \/ t = tmp[s]
      /\ \A t \in Tasks : callbacks[t] # <<>> => callbacks'[t] # <<>>
      /\ tmp[s] # NoTask => tmp[s] \in InPool /\ callbacks'[tmp[s]] # <<>>
  <2>1. CASE tmp[s] = NoTask
    BY <1>3, <2>1, SchedulerTaskAssumption
  <2>2. CASE tmp[s] # NoTask
    <3>1. /\ tmp[s] \in Tasks /\ tmp[s] \in InPool
          /\ callbacks[tmp[s]] \in Seq(BOOLEAN) /\ status[s] \in BOOLEAN
      BY <2>2, PoolTypesHold DEF InPool
    <3>2. Append(callbacks[tmp[s]], status[s]) # <<>>
      BY <3>1, AppendNotEmpty
    <3>3. \A t \in Tasks :
            callbacks'[t] = IF t = tmp[s] THEN Append(callbacks[t], status[s])
                                          ELSE callbacks[t]
      BY <1>3, <2>2, <3>1, PoolTypesHold
    <3> QED
      BY <2>2, <3>1, <3>2, <3>3
  <2> QED
    BY <2>1, <2>2
<1>5. ReportedDispatched'
  BY <1>1, <1>2, <1>3, <1>4, SchedulerTaskAssumption DEF PoolPart, ReportedDispatched
<1>6. PoolCalls' /\ Destruction'
  BY <1>1 DEF PoolPart, PoolCalls, Destruction
<1>7. SlotEmptied'
  BY <1>1, <1>3, PoolTypesHold DEF PoolPart, SlotEmptied
<1>8. OnItsWay'
  <2>1. \A r \in Slots : wpc'[r] = "callback" => callbacks'[tmp'[r]] # <<>>
    BY <1>1, <1>3, <1>4, PoolTypesHold DEF PoolPart, OnItsWay
  <2> QED
    BY <1>1, <1>2, <1>4, <2>1 DEF PoolPart, OnItsWay, Alive
<1> QED
  BY <1>5, <1>6, <1>7, <1>8 DEF PoolPart

LEMMA MoveClean ==
    ASSUME Owned, PoolPart, UNCHANGED schedVars, UNCHANGED queueVars, dtor # "gone",
           NEW s \in Slots, Pool!MoveTask(s)
    PROVE  PoolPart'
<1>1. /\ UNCHANGED <<arg, thread_, slot, after, cpc, callbacks, fate>>
      /\ UNCHANGED <<spc, dtor, doomed, client, dispatched>>
      /\ wpc' = [wpc EXCEPT ![s] = "clear"] /\ tmp[s] = NoTask
      /\ tmp' = [tmp EXCEPT ![s] = task_[s]]
      /\ task_' = [task_ EXCEPT ![s] = NoTask]
  BY DEF Pool!MoveTask, Pool!callerVars, Pool!taskVars, Owned, Transient, schedVars,
         loopVars, dtorVars
<1>2. InPool' = InPool
  BY <1>1, PoolTypesHold, SchedulerTaskAssumption DEF InPool
<1>3. ReportedDispatched' /\ PoolCalls' /\ Destruction'
  BY <1>1, <1>2 DEF PoolPart, ReportedDispatched, PoolCalls, Destruction, Alive
<1>4. SlotEmptied'
  BY <1>1, PoolTypesHold DEF PoolPart, SlotEmptied
<1>5. OnItsWay'
  BY <1>1, <1>2, PoolTypesHold DEF PoolPart, OnItsWay, Alive
<1> QED
  BY <1>3, <1>4, <1>5 DEF PoolPart

LEMMA FinishClean ==
    ASSUME Owned, PoolPart, UNCHANGED schedVars, UNCHANGED queueVars, dtor # "gone",
           NEW s \in Slots, Pool!FinishWorker(s)
    PROVE  PoolPart'
<1>1. /\ UNCHANGED <<task_, arg, thread_, slot, after, cpc, callbacks, fate>>
      /\ UNCHANGED <<spc, dtor, doomed, client, dispatched>>
      /\ wpc[s] = "callback" /\ wpc' = [wpc EXCEPT ![s] = "done"]
      /\ tmp' = [tmp EXCEPT ![s] = NoTask]
  BY DEF Pool!FinishWorker, Pool!memberVars, Pool!callerVars, schedVars, loopVars,
         dtorVars
<1>2. /\ InPool' \subseteq InPool
      /\ \A t \in InPool : t \in InPool' \/ t = tmp[s]
      /\ callbacks[tmp[s]] # <<>>
  BY <1>1, PoolTypesHold, SchedulerTaskAssumption DEF InPool, PoolPart, OnItsWay
<1>3. ReportedDispatched' /\ PoolCalls' /\ Destruction'
  BY <1>1, <1>2 DEF PoolPart, ReportedDispatched, PoolCalls, Destruction, Alive
<1>4. SlotEmptied'
  BY <1>1, PoolTypesHold DEF PoolPart, SlotEmptied
<1>5. OnItsWay'
  BY <1>1, <1>2, PoolTypesHold DEF PoolPart, OnItsWay, Alive
<1> QED
  BY <1>3, <1>4, <1>5 DEF PoolPart

\* An assigned task may overwrite one whose worker still runs; then the thread
\* is joinable.
LEMMA AssignClean ==
    ASSUME Owned, PoolPart, UNCHANGED schedVars, UNCHANGED queueVars, dtor # "gone",
           Pool!AssignTask
    PROVE  PoolPart'
<1>1. /\ UNCHANGED <<tmp, wpc, thread_, slot, after, callbacks, fate>>
      /\ UNCHANGED <<spc, dtor, doomed, client, dispatched>>
      /\ cpc[Runner] = "assign" /\ cpc' = [cpc EXCEPT ![Runner] = "spawn"]
      /\ arg' = [arg EXCEPT ![Runner] = NoTask]
      /\ task_' = [task_ EXCEPT ![slot[Runner]] = arg[Runner]]
  BY DEF Pool!AssignTask, Pool!workerVars, schedVars, loopVars, dtorVars
<1>2. /\ InPool' \subseteq InPool
      /\ \A t \in InPool : t \in InPool' \/ t = task_[slot[Runner]]
      /\ cpc'[Runner] = "spawn"
  BY <1>1, PoolTypesHold, SchedulerTaskAssumption DEF InPool
<1>3. task_[slot[Runner]] # NoTask => thread_[slot[Runner]] = "joinable"
  BY <1>1, PoolTypesHold DEF PoolPart, SlotEmptied
<1>4. ReportedDispatched' /\ PoolCalls' /\ Destruction'
  BY <1>1, <1>2 DEF PoolPart, ReportedDispatched, PoolCalls, Destruction, Alive
<1>5. SlotEmptied'
  BY <1>1, <1>2, PoolTypesHold DEF PoolPart, SlotEmptied
<1>6. OnItsWay'
  BY <1>1, <1>2, <1>3, PoolTypesHold, SchedulerTaskAssumption
     DEF PoolPart, OnItsWay, Alive
<1> QED
  BY <1>4, <1>5, <1>6 DEF PoolPart

LEMMA SpawnClean ==
    ASSUME Owned, PoolPart, UNCHANGED schedVars, UNCHANGED queueVars, dtor # "gone",
           Pool!SpawnThread
    PROVE  PoolPart'
<1>1. /\ UNCHANGED <<task_, tmp, arg, slot, after, callbacks>>
      /\ UNCHANGED <<spc, dtor, doomed, client, dispatched>>
      /\ cpc[Runner] = "spawn" /\ fate = "alive"
  BY DEF Pool!SpawnThread, Pool!taskVars, Pool!Alive, schedVars, loopVars, dtorVars
<1>2. InPool' = InPool
  BY <1>1 DEF InPool
<1>3. dtor = "no"
  BY <1>1 DEF PoolPart, PoolCalls, Destruction
<1>4. CASE thread_[slot[Runner]] = "joinable"
  <2>1. UNCHANGED <<thread_, wpc, cpc>> /\ fate' = "terminated"
    BY <1>4 DEF Pool!SpawnThread
  <2> QED
    BY <1>1, <1>2, <1>3, <2>1
       DEF PoolPart, ReportedDispatched, PoolCalls, Destruction, SlotEmptied,
           OnItsWay, Alive
<1>5. CASE thread_[slot[Runner]] # "joinable"
  <2>1. /\ wpc' = [wpc EXCEPT ![slot[Runner]] = "start"] /\ fate' = fate
        /\ cpc' = [cpc EXCEPT ![Runner] = "prewait"]
    BY <1>5 DEF Pool!SpawnThread
  <2>2. cpc'[Runner] = "prewait"
    BY <2>1, PoolTypesHold
  <2>3. ReportedDispatched' /\ PoolCalls' /\ Destruction'
    BY <1>1, <1>2, <1>3, <2>2 DEF PoolPart, ReportedDispatched, PoolCalls, Destruction
  <2>4. SlotEmptied'
    BY <1>1, <2>1, <2>2, PoolTypesHold DEF PoolPart, SlotEmptied
  <2>5. OnItsWay'
    BY <1>1, <1>2, <1>5, <2>1, PoolTypesHold DEF PoolPart, OnItsWay, Alive
  <2> QED
    BY <2>3, <2>4, <2>5 DEF PoolPart
<1> QED
  BY <1>4, <1>5

\* The runner's own steps inside set_task_and_run and set_interrupt.
LEMMA CallerClean ==
    ASSUME Owned, PoolPart, UNCHANGED schedVars, UNCHANGED queueVars, dtor # "gone",
           \/ Pool!EnterWait \/ Pool!SpuriousReturn \/ Pool!ReturnStarted
           \/ Pool!CallerStep(Runner)
    PROVE  PoolPart'
<1>1. /\ UNCHANGED <<task_, tmp, arg, wpc, thread_, slot, callbacks>>
      /\ UNCHANGED <<spc, dtor, doomed, client, dispatched>> /\ fate = "alive"
  BY DEF Pool!EnterWait, Pool!SpuriousReturn, Pool!ReturnStarted, Pool!CallerStep,
         Pool!TestTask, Pool!KillTask, Pool!StoreInterrupt, Pool!memberVars,
         Pool!workerVars, Pool!taskVars, Pool!Alive, schedVars, loopVars, dtorVars
<1>2. \/ /\ cpc[Runner] \in {"prewait", "wait", "woken"} /\ after' = after
         /\ \E pc \in {"wait", "woken", "idle"} : cpc' = [cpc EXCEPT ![Runner] = pc]
      \/ /\ cpc[Runner] \in {"intr", "deref"} /\ after' = after
         /\ \/ cpc' = cpc
            \/ \E pc \in {"deref", "store"} : cpc' = [cpc EXCEPT ![Runner] = pc]
      \/ cpc[Runner] = "store" /\ cpc' = [cpc EXCEPT ![Runner] = after[Runner]]
  BY DEF Pool!EnterWait, Pool!SpuriousReturn, Pool!ReturnStarted, Pool!CallerStep,
         Pool!TestTask, Pool!KillTask, Pool!StoreInterrupt
<1>3. InPool' = InPool
  BY <1>1 DEF InPool
<1>4. \/ /\ cpc[Runner] \in {"prewait", "wait", "woken"} /\ after' = after
         /\ cpc'[Runner] \in {"wait", "woken", "idle"}
      \/ /\ cpc[Runner] \in {"intr", "deref"} /\ after' = after
         /\ cpc'[Runner] \in {"intr", "deref", "store"}
      \/ cpc[Runner] = "store" /\ cpc'[Runner] = "join"
  BY <1>2, PoolTypesHold DEF PoolPart, PoolCalls
<1>5. ReportedDispatched' /\ SlotEmptied' /\ OnItsWay'
  BY <1>1, <1>3, <1>4 DEF PoolPart, ReportedDispatched, SlotEmptied, OnItsWay, Alive
<1>6. PoolCalls' /\ Destruction'
  BY <1>1, <1>4 DEF PoolPart, PoolCalls, Destruction
<1> QED
  BY <1>5, <1>6 DEF PoolPart

LEMMA JoinClean ==
    ASSUME Owned, PoolPart, UNCHANGED schedVars, UNCHANGED queueVars, dtor # "gone",
           doomed \in 0..PoolSize, Pool!Join
    PROVE  PoolPart'
<1>1. /\ UNCHANGED <<task_, tmp, arg, slot, after, callbacks, fate>>
      /\ UNCHANGED <<spc, dtor, doomed, client, dispatched>>
      /\ cpc[Runner] = "join" /\ cpc' = [cpc EXCEPT ![Runner] = "idle"]
  BY DEF Pool!Join, Pool!taskVars, schedVars, loopVars, dtorVars
<1>2. \/ /\ wpc[slot[Runner]] = "done" /\ wpc' = [wpc EXCEPT ![slot[Runner]] = "off"]
         /\ thread_' = [thread_ EXCEPT ![slot[Runner]] = "none"]
      \/ thread_[slot[Runner]] = "none" /\ UNCHANGED <<thread_, wpc>>
  BY DEF Pool!Join
<1>3. InPool' = InPool /\ cpc'[Runner] = "idle"
  BY <1>1, PoolTypesHold DEF InPool
<1>4. ReportedDispatched' /\ PoolCalls'
  BY <1>1, <1>3 DEF PoolPart, ReportedDispatched, PoolCalls
<1>5. Destruction'
  <2>1. /\ dtor = "joining" /\ slot[Runner] = doomed + 1
        /\ thread_'[slot[Runner]] = "none"
        /\ \A s \in Slots : thread_[s] = "none" => thread_'[s] = "none"
    BY <1>1, <1>2, PoolTypesHold DEF PoolPart, PoolCalls, Destruction
  <2> QED
    BY <1>1, <2>1 DEF PoolPart, Destruction
<1>6. SlotEmptied'
  BY <1>1, <1>2, <1>3, PoolTypesHold DEF PoolPart, SlotEmptied
<1>7. OnItsWay'
  BY <1>1, <1>2, <1>3, PoolTypesHold DEF PoolPart, OnItsWay, Alive
<1> QED
  BY <1>4, <1>5, <1>6, <1>7 DEF PoolPart

LEMMA PoolStepClean ==
    ASSUME LoopInv, Owned, PoolPart, CleanInv, PoolStep
    PROVE  PoolPart'
<1>1. /\ Pool!ThreadStep /\ UNCHANGED queueVars /\ UNCHANGED schedVars /\ dtor # "gone"
      /\ doomed \in 0..PoolSize
  BY NothingAfterDestruction DEF PoolStep, LoopInv, LoopTypes
<1>2. CASE Pool!OwnerStep \/ Pool!SpuriousReturn \/ Pool!CallerStep(Runner)
  BY <1>1, <1>2, AssignClean, SpawnClean, CallerClean, JoinClean DEF Pool!OwnerStep
<1>3. ASSUME NEW s \in Slots,
             Pool!WorkerProgress(s) \/ Pool!LockForStage(s) \/ Pool!UseAfterFree(s)
      PROVE  PoolPart'
  BY <1>1, <1>3, WorkerClean, completeClean, MoveClean, FinishClean
     DEF Pool!WorkerProgress
<1> QED
  BY <1>1, <1>2, <1>3 DEF Pool!ThreadStep

-----------------------------------------------------------------------------
(* The invariant of the whole scheduler, and what follows from it.         *)

\* A dispatched task enters the pool in the current session.
LEMMA DispatchClean ==
    ASSUME LoopInv, Owned, PoolPart, Dispatch, next_task # NoTask
    PROVE  PoolPart'
<1>1. /\ Pool!set_task_and_run(unused_index, held[Runner])
      /\ spc = "dispatch" /\ spc' = "starting" /\ fate = "alive"
      /\ dispatched' = [dispatched EXCEPT ![held[Runner]] = session]
      /\ UNCHANGED <<queue_, client, dtor, doomed>>
      /\ held[Runner] # NoTask
  BY DEF Dispatch, next_task, Go, dtorVars, Alive
<1>2. /\ cpc[Runner] = "idle" /\ cpc' = [cpc EXCEPT ![Runner] = "assign"]
      /\ slot' = [slot EXCEPT ![Runner] = unused_index]
      /\ arg' = [arg EXCEPT ![Runner] = held[Runner]]
      /\ UNCHANGED <<task_, tmp, wpc, thread_, after, callbacks, fate>>
  BY <1>1 DEF Pool!set_task_and_run, Pool!memberVars, Pool!workerVars
<1>3. /\ held[Runner] \in Tasks /\ dtor = "no" /\ unused_index \in Slots
      /\ session \in Nat \ {0} /\ dispatched \in [Tasks -> Nat]
  <2>1. held[Runner] \in Tasks \cup {NoTask}
    BY DEF Owned, QueueView!TypeOK, QueueView!Pointers, Consumers
  <2> QED
    BY <1>1, <2>1 DEF PoolPart, Destruction, LoopInv, LoopTypes, FirstSession
<1>4. cpc'[Runner] = "assign" /\ arg'[Runner] = held[Runner] /\ arg[Runner] = NoTask
  BY <1>2, PoolTypesHold DEF Owned, Transient
<1>5. InPool' = InPool \cup {held[Runner]}
  BY <1>2, <1>3, <1>4, SchedulerTaskAssumption DEF InPool
<1>6. /\ dispatched'[held[Runner]] # 0
      /\ \A t \in Tasks : t # held[Runner] => dispatched'[t] = dispatched[t]
  BY <1>1, <1>3
<1>7. ReportedDispatched'
  BY <1>2, <1>5, <1>6 DEF PoolPart, ReportedDispatched, InPool
<1>8. PoolCalls'
  BY <1>1, <1>4 DEF PoolCalls
<1>9. Destruction'
  BY <1>1, <1>3 DEF PoolPart, Destruction
<1>10. SlotEmptied'
  BY <1>2, PoolTypesHold DEF PoolPart, SlotEmptied
<1>11. OnItsWay'
  BY <1>1, <1>2, <1>5, <1>6 DEF PoolPart, OnItsWay, Alive
<1> QED
  BY <1>7, <1>8, <1>9, <1>10, <1>11 DEF PoolPart

\* The destructor calls shutdown() of the next slot.
LEMMA ShutdownSlotClean ==
    ASSUME LoopInv, Owned, PoolPart, ShutdownSlot
    PROVE  PoolPart'
<1>1. /\ dtor = "slots" /\ dtor' = "joining" /\ doomed' = doomed - 1
      /\ doomed \in Slots /\ Pool!shutdown(doomed)
      /\ UNCHANGED <<queue_, spc, client, dispatched>>
  BY PoolAssumption
     DEF ShutdownSlot, queueVars, loopVars, LoopInv, LoopTypes, Slots
<1>2. /\ cpc[Runner] = "idle" /\ slot' = [slot EXCEPT ![Runner] = doomed]
      /\ \/ /\ cpc' = [cpc EXCEPT ![Runner] = "intr"]
            /\ after' = [after EXCEPT ![Runner] = "join"]
         \/ cpc' = [cpc EXCEPT ![Runner] = "join"] /\ UNCHANGED after
      /\ UNCHANGED <<task_, tmp, arg, wpc, thread_, callbacks, fate>>
  BY <1>1 DEF Pool!shutdown, Pool!memberVars, Pool!workerVars, Pool!taskVars
<1>3. /\ slot'[Runner] = doomed' + 1
      /\ cpc'[Runner] \in {"intr", "join"}
      /\ cpc'[Runner] = "intr" => after'[Runner] = "join"
  BY <1>1, <1>2, PoolTypesHold, PoolAssumption DEF Slots
<1>4. InPool' = InPool
  BY <1>2 DEF InPool
<1>5. ReportedDispatched' /\ SlotEmptied' /\ OnItsWay'
  BY <1>1, <1>2, <1>3, <1>4
     DEF PoolPart, ReportedDispatched, SlotEmptied, OnItsWay, Alive
<1>6. PoolCalls'
  BY <1>1, <1>3 DEF PoolCalls
<1>7. Destruction'
  <2>1. \A s \in Slots : s > doomed' => s > doomed \/ s = doomed' + 1
    BY <1>1, PoolAssumption DEF Slots
  <2> QED
    BY <1>1, <1>2, <1>3, <2>1 DEF PoolPart, Destruction
<1> QED
  BY <1>5, <1>6, <1>7 DEF PoolPart

LEMMA PoolPartStep ==
    ASSUME LoopInv, Owned, ReportedDispatched, CleanInv, [Next]_vars
    PROVE  PoolPart'
<1>1. PoolPart
  BY DEF CleanInv, PoolPart
<1>2. CASE NotPool
  BY <1>1, <1>2, NotPoolSlots, NotPoolControl DEF PoolPart
<1>3. CASE UNCHANGED vars
  BY <1>1, <1>3
     DEF vars, queueVars, poolVars, taskVars, schedVars, loopVars, dtorVars,
         PoolPart, ReportedDispatched, PoolCalls, Destruction, SlotEmptied, OnItsWay,
         InPool, Alive
<1>4. \/ NotPool \/ PoolStep \/ (Dispatch /\ next_task # NoTask) \/ ShutdownSlot
      \/ UNCHANGED vars
  BY DEF Next, RunnerStep, DestructorStep, NotPool
<1> QED
  BY <1>1, <1>2, <1>3, <1>4, PoolStepClean, DispatchClean, ShutdownSlotClean

LEMMA CleanInit == ASSUME Init PROVE ReportedDispatched /\ CleanInv
<1>1. Queue!Init /\ Pool!ThreadInit
  BY DEF Init
<1>2. InPool = {}
  BY <1>1, SchedulerTaskAssumption DEF Pool!ThreadInit, InPool
<1>3. ReportedDispatched
  BY <1>1, <1>2 DEF Pool!ThreadInit, ReportedDispatched
<1>4. HandsEmpty
  BY <1>1, RunnerAssumption DEF Init, Queue!Init, HandsEmpty
<1>5. PoolCalls /\ SlotEmptied
  BY <1>1 DEF Pool!ThreadInit, PoolCalls, SlotEmptied
<1>6. Destruction /\ OnItsWay
  BY <1>1 DEF Init, Pool!ThreadInit, Destruction, OnItsWay
<1> QED
  BY <1>3, <1>4, <1>5, <1>6 DEF CleanInv

LEMMA SchedulerInvInit == ASSUME Init PROVE SchedulerInv
  BY InitHolds, OwnedInit, CleanInit DEF SchedulerInv, OwnerInv

LEMMA SchedulerInvStep == ASSUME SchedulerInv, [Next]_vars PROVE SchedulerInv'
<1>1. LoopInv /\ Owned /\ SchedTypes /\ ReportedDispatched /\ CleanInv /\ HandsEmpty
  BY DEF SchedulerInv, OwnerInv, CleanInv
<1>2. LoopInv' /\ Owned' /\ SchedTypes' /\ HandsEmpty' /\ PoolPart'
  BY <1>1, LoopInvStep, OwnedStep, SchedTypesStep, HandsEmptyStep, PoolPartStep
<1> QED
  BY <1>2 DEF SchedulerInv, OwnerInv, CleanInv, PoolPart

LEMMA SchedulerInvariant == Spec => []SchedulerInv
<1> QED
  BY SchedulerInvInit, SchedulerInvStep, PTL DEF Spec

\* Every task has exactly one owner: whatever clients, runner, workers and
\* destructor do, std::move never leaves a task with two unique_ptrs and no
\* path of startup(), kill_task or ~TaskScheduler drops one unnoticed.
THEOREM OneOwnerAcross == Spec => []TaskHasOneOwner
<1>1. SchedulerInv => TaskHasOneOwner
  BY OneOwner DEF SchedulerInv, OwnerInv
<1> QED
  BY <1>1, SchedulerInvariant, PTL

\* A callback comes only for a task that startup() handed to a slot, and at
\* most once: a task that kill_task took out, that a shutdown dropped in the
\* inner loop, or that was still queued at the end never reports.
THEOREM ReportsAreOfDispatched == Spec => []OnlyDispatchedReport
<1>1. SchedulerInv => OnlyDispatchedReport
  <2>1. Len(<<>>) = 0
    OBVIOUS
  <2>2. SchedulerInv => /\ \A t \in Tasks : Len(callbacks[t]) <= 1
                        /\ \A t \in Tasks : callbacks[t] # <<>> => dispatched[t] # 0
    BY DEF SchedulerInv, OwnerInv, Owned, PoolView!ThreadInv, PoolView!ReportInv,
           PoolView!AtMostOnce, ReportedDispatched
  <2> QED
    BY <2>1, <2>2 DEF OnlyDispatchedReport
<1> QED
  BY <1>1, SchedulerInvariant, PTL

LEMMA DestructionClean ==
    ASSUME SchedulerInv, dtor = "gone"
    PROVE  CleanAfterDestruction
<1>1. /\ Owned /\ HandsEmpty /\ PoolCalls /\ Destruction /\ SlotEmptied /\ OnItsWay
  BY DEF SchedulerInv, OwnerInv, CleanInv
<1>2. /\ cpc[Runner] = "idle" /\ doomed = 0 /\ queue_ = <<>> /\ Alive /\ spc = "out"
      /\ \A c \in Clients : client[c] = "idle"
  BY <1>1, PoolTypesHold DEF Destruction, PoolCalls, PoolView!CallerPCs
<1>3. \A s \in Slots : wpc[s] = "off"
  <2>1. \A s \in Slots : s > 0
    BY PoolAssumption DEF Slots
  <2> QED
    BY <1>1, <1>2, <2>1, PoolTypesHold DEF Destruction
<1>4. InPool = {}
  <2>1. arg[Runner] = NoTask /\ \A s \in Slots : task_[s] = NoTask /\ tmp[s] = NoTask
    BY <1>1, <1>2, <1>3 DEF Owned, Transient, SlotEmptied
  <2> QED
    BY <2>1, SchedulerTaskAssumption DEF InPool
<1>5. \A c \in Consumers : held[c] = NoTask
  BY <1>1, <1>2 DEF HandsEmpty, Consumers
<1>6. \A t \in Tasks : t \in fresh \cup destroyed
  <2>1. DOMAIN queue_ = {}
    BY <1>2
  <2> QED
    BY <1>1, <1>4, <1>5, <2>1, SchedulerTaskAssumption
       DEF Owned, QueueView!UniqueOwner, QueueView!NoLeak, Gone
<1>7. \A t \in Tasks : dispatched[t] # 0 => callbacks[t] # <<>>
  BY <1>1, <1>2, <1>4 DEF OnItsWay
<1> QED
  BY <1>3, <1>6, <1>7 DEF CleanAfterDestruction

\* When ~TaskScheduler is through, it has joined every worker of the pool,
\* destroyed every task a client gave away, and every dispatched task has made
\* its callback.
THEOREM DestructorLeavesNothing == Spec => []CleanAfterDestruction
<1>1. SchedulerInv => CleanAfterDestruction
  BY DestructionClean DEF CleanAfterDestruction
<1> QED
  BY <1>1, SchedulerInvariant, PTL
=============================================================================
