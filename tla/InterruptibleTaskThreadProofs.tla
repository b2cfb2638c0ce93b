-------------------- MODULE InterruptibleTaskThreadProofs --------------------
(***************************************************************************)
(* Theorems about the worker threads, for any tasks, numbers of stages,    *)
(* slots and callers.                                                      *)
(***************************************************************************)
EXTENDS InterruptibleTaskThread, TLAPS

\* A slot without a thread has no worker.
NoWorkerWithoutThread == \A s \in Slots : thread_[s] = "none" => wpc[s] = "off"

\* running_ is false from the moment the worker has cleared it.
ClearedBeforeCallback ==
    \A s \in Slots : wpc[s] \in {"complete", "callback"} => ~running_[s]

\* task_ is null once the worker has moved the task out, unless the owner has
\* assigned the next one.  That start ends in std::terminate.
MovedOut ==
    \A s \in Slots :
        wpc[s] \in {"clear", "complete", "callback"} =>
            task_[s] = NoTask \/ (slot[Owner] = s /\ cpc[Owner] = "spawn")

\* Inside the callback the worker's tmp is a task.
CallbackHasTask == \A s \in Slots : wpc[s] = "callback" => tmp[s] # NoTask

SlotInv ==
    NoWorkerWithoutThread /\ ClearedBeforeCallback /\ MovedOut /\ CallbackHasTask

\* A task is at one place: with its client, in the argument of
\* set_task_and_run, in one slot's task_, in one worker's tmp, or destroyed.
FreshApart ==
    \A t \in fresh :
        /\ arg[Owner] # t /\ t \notin destroyed
        /\ \A s \in Slots : task_[s] # t /\ tmp[s] # t

ArgApart ==
    arg[Owner] # NoTask =>
        /\ arg[Owner] \notin destroyed
        /\ \A s \in Slots : task_[s] # arg[Owner] /\ tmp[s] # arg[Owner]

TaskApart ==
    \A s \in Slots : task_[s] # NoTask =>
        /\ task_[s] \notin destroyed
        /\ \A r \in Slots : tmp[r] # task_[s] /\ (r # s => task_[r] # task_[s])

TmpApart ==
    \A s \in Slots : tmp[s] # NoTask =>
        /\ tmp[s] \notin destroyed
        /\ \A r \in Slots : r # s => tmp[r] # tmp[s]

OnePlace == FreshApart /\ ArgApart /\ TaskApart /\ TmpApart

\* The callback has not been called for a task at any of these places, except
\* in a worker that is inside the callback.
NotYetReported ==
    /\ \A t \in fresh : callbacks[t] = <<>>
    /\ arg[Owner] # NoTask => callbacks[arg[Owner]] = <<>>
    /\ \A s \in Slots : task_[s] # NoTask => callbacks[task_[s]] = <<>>
    /\ \A s \in Slots : tmp[s] # NoTask /\ wpc[s] # "callback"
                            => callbacks[tmp[s]] = <<>>

AtMostOnce == \A t \in Tasks : Len(callbacks[t]) <= 1

ReportInv == OnePlace /\ NotYetReported /\ AtMostOnce

\* The inductive invariant.
ThreadInv == TypeOK /\ SlotInv /\ ReportInv

-----------------------------------------------------------------------------
\* A step that moves no task and enters or leaves no callback.
LEMMA NothingMoved ==
    ASSUME ThreadInv, UNCHANGED <<task_, tmp, arg, fresh, destroyed, callbacks>>,
           \A s \in Slots : wpc[s] = "callback" => wpc'[s] = "callback"
    PROVE  ReportInv'
<1>1. OnePlace'
  BY DEF ThreadInv, ReportInv, OnePlace, FreshApart, ArgApart, TaskApart,
     TmpApart
<1>2. NotYetReported' /\ AtMostOnce'
  BY DEF ThreadInv, ReportInv, NotYetReported, AtMostOnce
<1> QED BY <1>1, <1>2 DEF ReportInv

-----------------------------------------------------------------------------
(* One lemma per action.                                                   *)

LEMMA SpawnThreadPreserves ==
    ASSUME ThreadInv, SpawnThread
    PROVE  ThreadInv'
<1>1. TypeOK'
  <2>1. CASE thread_[slot[Owner]] = "joinable"
    BY <2>1 DEF ThreadInv, TypeOK, SpawnThread, taskVars
  <2>2. CASE thread_[slot[Owner]] # "joinable"
    BY <2>2 DEF ThreadInv, TypeOK, SpawnThread, taskVars, WorkerPCs, CallerPCs
  <2> QED BY <2>1, <2>2
<1>2. SlotInv'
  <2>1. CASE thread_[slot[Owner]] = "joinable"
    BY <2>1, OwnerAssumption DEF ThreadInv, TypeOK, SlotInv,
       NoWorkerWithoutThread, ClearedBeforeCallback, MovedOut,
       CallbackHasTask, SpawnThread, memberVars, callerVars,
         taskVars
  <2>2. CASE thread_[slot[Owner]] # "joinable"
    <3>1. slot[Owner] \in Slots /\ wpc[slot[Owner]] = "off"
      BY <2>2, OwnerAssumption DEF ThreadInv, TypeOK, SlotInv,
         NoWorkerWithoutThread
    <3>2. /\ thread_' = [thread_ EXCEPT ![slot[Owner]] = "joinable"]
          /\ wpc' = [wpc EXCEPT ![slot[Owner]] = "start"]
          /\ cpc' = [cpc EXCEPT ![Owner] = "prewait"]
          /\ UNCHANGED <<task_, running_, slot>>
      BY <2>2 DEF SpawnThread
    <3>3. NoWorkerWithoutThread' /\ ClearedBeforeCallback'
      BY <3>1, <3>2 DEF ThreadInv, TypeOK, SlotInv, NoWorkerWithoutThread,
         ClearedBeforeCallback, MovedOut
    <3>4. ASSUME NEW s \in Slots, wpc'[s] \in {"clear", "complete", "callback"}
          PROVE  task_[s] = NoTask
      BY <3>1, <3>2, <3>4 DEF ThreadInv, TypeOK, SlotInv, MovedOut
    <3>5. CallbackHasTask'
      BY <3>1, <3>2 DEF ThreadInv, TypeOK, SlotInv, CallbackHasTask,
         SpawnThread
    <3> QED BY <3>2, <3>3, <3>4, <3>5 DEF SlotInv, MovedOut
  <2> QED BY <2>1, <2>2
<1>3. ReportInv'
  <2>1. UNCHANGED <<task_, tmp, arg, fresh, destroyed, callbacks>>
    BY DEF SpawnThread, taskVars
  <2>2. wpc' = wpc \/ (/\ wpc[slot[Owner]] = "off"
                      /\ wpc' = [wpc EXCEPT ![slot[Owner]] = "start"])
    BY OwnerAssumption DEF SpawnThread, ThreadInv, TypeOK, SlotInv,
       NoWorkerWithoutThread
  <2> QED BY <2>1, <2>2, NothingMoved DEF ThreadInv, TypeOK
<1> QED BY <1>1, <1>2, <1>3 DEF ThreadInv

LEMMA EnterWaitPreserves ==
    ASSUME ThreadInv, EnterWait
    PROVE  ThreadInv'
<1>1. TypeOK'
  BY OwnerAssumption DEF ThreadInv, TypeOK, EnterWait, memberVars, workerVars,
     taskVars, CallerPCs
<1>2. SlotInv'
  BY OwnerAssumption DEF ThreadInv, TypeOK, SlotInv, NoWorkerWithoutThread,
     ClearedBeforeCallback, MovedOut, CallbackHasTask, EnterWait, memberVars,
     workerVars, taskVars
<1>3. ReportInv'
  BY NothingMoved DEF ThreadInv, TypeOK, EnterWait, memberVars, workerVars,
     taskVars
<1> QED BY <1>1, <1>2, <1>3 DEF ThreadInv

LEMMA SpuriousReturnPreserves ==
    ASSUME ThreadInv, SpuriousReturn
    PROVE  ThreadInv'
<1>1. TypeOK'
  BY OwnerAssumption DEF ThreadInv, TypeOK, SpuriousReturn, memberVars,
     workerVars, taskVars, CallerPCs
<1>2. SlotInv'
  BY OwnerAssumption DEF ThreadInv, TypeOK, SlotInv, NoWorkerWithoutThread,
     ClearedBeforeCallback, MovedOut, CallbackHasTask, SpuriousReturn,
     memberVars, workerVars, taskVars
<1>3. ReportInv'
  BY NothingMoved DEF ThreadInv, TypeOK, SpuriousReturn, memberVars,
     workerVars, taskVars
<1> QED BY <1>1, <1>2, <1>3 DEF ThreadInv

LEMMA ReturnStartedPreserves ==
    ASSUME ThreadInv, ReturnStarted
    PROVE  ThreadInv'
<1>1. TypeOK'
  BY OwnerAssumption DEF ThreadInv, TypeOK, ReturnStarted, memberVars,
     workerVars, taskVars, CallerPCs
<1>2. SlotInv'
  BY OwnerAssumption DEF ThreadInv, TypeOK, SlotInv, NoWorkerWithoutThread,
     ClearedBeforeCallback, MovedOut, CallbackHasTask, ReturnStarted,
     memberVars, workerVars, taskVars
<1>3. ReportInv'
  BY NothingMoved DEF ThreadInv, TypeOK, ReturnStarted, memberVars,
     workerVars, taskVars
<1> QED BY <1>1, <1>2, <1>3 DEF ThreadInv

LEMMA set_interruptPreserves ==
    ASSUME ThreadInv, NEW c \in Callers, NEW s \in Slots, NEW b \in BOOLEAN,
           set_interrupt(c, s, b)
    PROVE  ThreadInv'
<1>1. TypeOK'
  BY OwnerAssumption DEF ThreadInv, TypeOK, set_interrupt, memberVars,
     workerVars, taskVars, CallerPCs
<1>2. SlotInv'
  BY OwnerAssumption DEF ThreadInv, TypeOK, SlotInv, NoWorkerWithoutThread,
     ClearedBeforeCallback, MovedOut, CallbackHasTask, set_interrupt,
     memberVars, workerVars, taskVars
<1>3. ReportInv'
  BY NothingMoved DEF ThreadInv, TypeOK, set_interrupt, memberVars,
     workerVars, taskVars
<1> QED BY <1>1, <1>2, <1>3 DEF ThreadInv

LEMMA TestTaskPreserves ==
    ASSUME ThreadInv, NEW c \in Callers, TestTask(c)
    PROVE  ThreadInv'
<1>1. TypeOK'
  <2>1. /\ slot[c] \in Slots /\ task_[slot[c]] \in Pointers
        /\ task_lock_ \in [Slots -> Callers \cup {"free", "worker"}]
        /\ seen \in [Callers -> Pointers] /\ cpc \in [Callers -> CallerPCs]
    BY DEF ThreadInv, TypeOK
  <2>2. seen' \in [Callers -> Pointers]
    BY <2>1 DEF TestTask
  <2>3. cpc' \in [Callers -> CallerPCs]
    BY <2>1 DEF TestTask, CallerPCs
  <2>4. task_lock_' \in [Slots -> Callers \cup {"free", "worker"}]
    BY <2>1 DEF TestTask
  <2> QED BY <2>2, <2>3, <2>4 DEF ThreadInv, TypeOK, TestTask, workerVars, taskVars
<1>2. SlotInv'
  BY OwnerAssumption DEF ThreadInv, TypeOK, SlotInv, NoWorkerWithoutThread,
     ClearedBeforeCallback, MovedOut, CallbackHasTask, TestTask, workerVars,
     taskVars
<1>3. ReportInv'
  BY NothingMoved DEF ThreadInv, TypeOK, TestTask, workerVars, taskVars
<1> QED BY <1>1, <1>2, <1>3 DEF ThreadInv

LEMMA KillTaskPreserves ==
    ASSUME ThreadInv, NEW c \in Callers, KillTask(c)
    PROVE  ThreadInv'
<1>1. TypeOK'
  <2>1. /\ slot[c] \in Slots /\ killed \in [Tasks -> BOOLEAN]
        /\ task_lock_ \in [Slots -> Callers \cup {"free", "worker"}]
        /\ seen \in [Callers -> Pointers] /\ cpc \in [Callers -> CallerPCs]
    BY DEF ThreadInv, TypeOK
  <2>2. seen' = seen \/ seen' = [seen EXCEPT ![c] = NoTask]
    BY DEF KillTask
  <2>3. cpc' = cpc \/ cpc' = [cpc EXCEPT ![c] = "store"]
    BY DEF KillTask
  <2>4. task_lock_' = task_lock_ \/ task_lock_' = [task_lock_ EXCEPT ![slot[c]] = "free"]
    BY DEF KillTask
  <2>5. killed' = killed \/ \E p \in Pointers : killed' = [killed EXCEPT ![p] = TRUE]
    BY <2>1 DEF KillTask, ThreadInv, TypeOK
  <2>6. fate' \in {"alive", "segfault", "terminated"}
    BY DEF KillTask, ThreadInv, TypeOK
  <2>7. seen' \in [Callers -> Pointers] /\ cpc' \in [Callers -> CallerPCs]
    BY <2>1, <2>2, <2>3 DEF Pointers, CallerPCs
  <2>8. task_lock_' \in [Slots -> Callers \cup {"free", "worker"}]
    BY <2>1, <2>4
  <2>9. killed' \in [Tasks -> BOOLEAN]
    BY <2>1, <2>5
  <2> QED BY <2>6, <2>7, <2>8, <2>9 DEF ThreadInv, TypeOK, KillTask, workerVars
<1>2. SlotInv'
  BY OwnerAssumption DEF ThreadInv, TypeOK, SlotInv, NoWorkerWithoutThread,
     ClearedBeforeCallback, MovedOut, CallbackHasTask, KillTask, workerVars
<1>3. ReportInv'
  BY NothingMoved DEF ThreadInv, TypeOK, KillTask, workerVars
<1> QED BY <1>1, <1>2, <1>3 DEF ThreadInv

LEMMA StoreInterruptPreserves ==
    ASSUME ThreadInv, NEW c \in Callers, StoreInterrupt(c)
    PROVE  ThreadInv'
<1>1. TypeOK'
  BY OwnerAssumption DEF ThreadInv, TypeOK, StoreInterrupt, workerVars,
     taskVars, CallerPCs
<1>2. SlotInv'
  BY OwnerAssumption DEF ThreadInv, TypeOK, SlotInv, NoWorkerWithoutThread,
     ClearedBeforeCallback, MovedOut, CallbackHasTask, StoreInterrupt,
     workerVars, taskVars
<1>3. ReportInv'
  BY NothingMoved DEF ThreadInv, TypeOK, StoreInterrupt, workerVars, taskVars
<1> QED BY <1>1, <1>2, <1>3 DEF ThreadInv

LEMMA shutdownPreserves ==
    ASSUME ThreadInv, NEW s \in Slots, shutdown(s)
    PROVE  ThreadInv'
<1>1. TypeOK'
  <2>1. /\ slot \in [Callers -> Slots] /\ cpc \in [Callers -> CallerPCs]
        /\ flag \in [Callers -> BOOLEAN] /\ after \in [Callers -> {"idle", "join"}]
    BY DEF ThreadInv, TypeOK
  <2>2. slot' \in [Callers -> Slots]
    BY <2>1 DEF shutdown
  <2>3. cpc' \in [Callers -> CallerPCs]
    BY <2>1 DEF shutdown, CallerPCs
  <2>4. flag' \in [Callers -> BOOLEAN]
    BY <2>1 DEF shutdown
  <2>5. after' \in [Callers -> {"idle", "join"}]
    BY <2>1 DEF shutdown
  <2> QED BY <2>2, <2>3, <2>4, <2>5
          DEF ThreadInv, TypeOK, shutdown, memberVars, workerVars, taskVars
<1>2. SlotInv'
  BY OwnerAssumption DEF ThreadInv, TypeOK, SlotInv, NoWorkerWithoutThread,
     ClearedBeforeCallback, MovedOut, CallbackHasTask, shutdown, memberVars,
     workerVars, taskVars
<1>3. ReportInv'
  BY NothingMoved DEF ThreadInv, TypeOK, shutdown, memberVars, workerVars,
     taskVars
<1> QED BY <1>1, <1>2, <1>3 DEF ThreadInv

LEMMA JoinPreserves ==
    ASSUME ThreadInv, Join
    PROVE  ThreadInv'
<1>1. TypeOK'
  <2>1. /\ thread_ \in [Slots -> {"none", "joinable"}]
        /\ wpc \in [Slots -> WorkerPCs] /\ cpc \in [Callers -> CallerPCs]
    BY DEF ThreadInv, TypeOK
  <2>2. thread_' \in [Slots -> {"none", "joinable"}]
    BY <2>1 DEF Join
  <2>3. wpc' \in [Slots -> WorkerPCs]
    BY <2>1 DEF Join, WorkerPCs
  <2>4. cpc' \in [Callers -> CallerPCs]
    BY <2>1 DEF Join, CallerPCs
  <2> QED BY <2>2, <2>3, <2>4 DEF ThreadInv, TypeOK, Join, taskVars
<1>2. SlotInv'
  <2>1. /\ cpc[Owner] = "join" /\ cpc' = [cpc EXCEPT ![Owner] = "idle"]
        /\ UNCHANGED <<task_, running_, slot, tmp>>
    BY DEF Join
  <2>2. CASE UNCHANGED <<thread_, wpc>>
    BY <2>1, <2>2, OwnerAssumption DEF ThreadInv, TypeOK, SlotInv,
       NoWorkerWithoutThread, ClearedBeforeCallback, MovedOut, CallbackHasTask
  <2>3. CASE /\ thread_' = [thread_ EXCEPT ![slot[Owner]] = "none"]
             /\ wpc' = [wpc EXCEPT ![slot[Owner]] = "off"]
    BY <2>1, <2>3, OwnerAssumption DEF ThreadInv, TypeOK, SlotInv,
       NoWorkerWithoutThread, ClearedBeforeCallback, MovedOut, CallbackHasTask
  <2> QED BY <2>2, <2>3 DEF Join
<1>3. ReportInv'
  BY NothingMoved DEF ThreadInv, TypeOK, Join, taskVars
<1> QED BY <1>1, <1>2, <1>3 DEF ThreadInv

LEMMA NotifyPreserves ==
    ASSUME ThreadInv, NEW s \in Slots, Notify(s)
    PROVE  ThreadInv'
<1>1. TypeOK'
  <2>1. wpc \in [Slots -> WorkerPCs] /\ cpc \in [Callers -> CallerPCs]
        /\ started \in BOOLEAN
    BY DEF ThreadInv, TypeOK
  <2>2. wpc' \in [Slots -> WorkerPCs]
    BY <2>1 DEF Notify, WorkerPCs
  <2>3. cpc' \in [Callers -> CallerPCs]
    BY <2>1 DEF Notify, CallerPCs
  <2>4. started' \in BOOLEAN
    BY <2>1 DEF Notify
  <2>5. fate' \in {"alive", "segfault", "terminated"}
    BY DEF Notify, ThreadInv, TypeOK
  <2> QED BY <2>2, <2>3, <2>4, <2>5
          DEF ThreadInv, TypeOK, Notify, memberVars, taskVars
<1>2. SlotInv'
  BY OwnerAssumption DEF ThreadInv, TypeOK, SlotInv, NoWorkerWithoutThread,
     ClearedBeforeCallback, MovedOut, CallbackHasTask, Notify, memberVars,
     taskVars
<1>3. ReportInv'
  BY NothingMoved DEF ThreadInv, TypeOK, Notify, memberVars, taskVars
<1> QED BY <1>1, <1>2, <1>3 DEF ThreadInv

LEMMA CheckTaskPreserves ==
    ASSUME ThreadInv, NEW s \in Slots, CheckTask(s)
    PROVE  ThreadInv'
<1>1. TypeOK'
  BY OwnerAssumption DEF ThreadInv, TypeOK, CheckTask, memberVars, callerVars,
     taskVars, Pointers, WorkerPCs
<1>2. SlotInv'
  BY OwnerAssumption DEF ThreadInv, TypeOK, SlotInv, NoWorkerWithoutThread,
     ClearedBeforeCallback, MovedOut, CallbackHasTask, CheckTask, memberVars,
     callerVars, taskVars
<1>3. ReportInv'
  BY NothingMoved DEF ThreadInv, TypeOK, CheckTask, memberVars, callerVars,
     taskVars
<1> QED BY <1>1, <1>2, <1>3 DEF ThreadInv

LEMMA MarkRunningPreserves ==
    ASSUME ThreadInv, NEW s \in Slots, MarkRunning(s)
    PROVE  ThreadInv'
<1>1. TypeOK'
  <2>1. /\ wpc \in [Slots -> WorkerPCs] /\ running_ \in [Slots -> BOOLEAN]
        /\ iterated \in [Slots -> Pointers] /\ task_ \in [Slots -> Pointers]
        /\ stage \in [Slots -> Nat] /\ status \in [Slots -> BOOLEAN]
    BY DEF ThreadInv, TypeOK
  <2>2. running_' \in [Slots -> BOOLEAN]
    BY <2>1 DEF MarkRunning
  <2>3. wpc' \in [Slots -> WorkerPCs]
    BY <2>1 DEF MarkRunning, WorkerPCs, workerVars
  <2>4. iterated' \in [Slots -> Pointers] /\ stage' \in [Slots -> Nat]
    BY <2>1 DEF MarkRunning, workerVars
  <2>5. status' \in [Slots -> BOOLEAN]
    BY <2>1 DEF MarkRunning, workerVars
  <2>6. fate' \in {"alive", "segfault", "terminated"} /\ tmp' = tmp
    BY DEF MarkRunning, ThreadInv, TypeOK, workerVars
  <2> QED BY <2>2, <2>3, <2>4, <2>5, <2>6
          DEF ThreadInv, TypeOK, MarkRunning, callerVars, taskVars
<1>2. SlotInv'
  BY OwnerAssumption DEF ThreadInv, TypeOK, SlotInv, NoWorkerWithoutThread,
     ClearedBeforeCallback, MovedOut, CallbackHasTask, MarkRunning,
     workerVars, callerVars, taskVars
<1>3. ReportInv'
  BY NothingMoved DEF ThreadInv, TypeOK, MarkRunning, workerVars, callerVars,
     taskVars
<1> QED BY <1>1, <1>2, <1>3 DEF ThreadInv

LEMMA LockForStagePreserves ==
    ASSUME ThreadInv, NEW s \in Slots, LockForStage(s)
    PROVE  ThreadInv'
<1>1. TypeOK'
  BY OwnerAssumption DEF ThreadInv, TypeOK, LockForStage, callerVars,
     taskVars, WorkerPCs
<1>2. SlotInv'
  BY OwnerAssumption DEF ThreadInv, TypeOK, SlotInv, NoWorkerWithoutThread,
     ClearedBeforeCallback, MovedOut, CallbackHasTask, LockForStage,
     callerVars, taskVars
<1>3. ReportInv'
  BY NothingMoved DEF ThreadInv, TypeOK, LockForStage, callerVars, taskVars
<1> QED BY <1>1, <1>2, <1>3 DEF ThreadInv

LEMMA RunStagePreserves ==
    ASSUME ThreadInv, NEW s \in Slots, RunStage(s)
    PROVE  ThreadInv'
<1>1. TypeOK'
  BY OwnerAssumption DEF ThreadInv, TypeOK, RunStage, callerVars, taskVars,
     WorkerPCs
<1>2. SlotInv'
  BY OwnerAssumption DEF ThreadInv, TypeOK, SlotInv, NoWorkerWithoutThread,
     ClearedBeforeCallback, MovedOut, CallbackHasTask, RunStage, callerVars,
     taskVars
<1>3. ReportInv'
  BY NothingMoved DEF ThreadInv, TypeOK, RunStage, callerVars, taskVars
<1> QED BY <1>1, <1>2, <1>3 DEF ThreadInv

LEMMA PollInterruptPreserves ==
    ASSUME ThreadInv, NEW s \in Slots, PollInterrupt(s)
    PROVE  ThreadInv'
<1>1. TypeOK'
  BY OwnerAssumption DEF ThreadInv, TypeOK, PollInterrupt, memberVars,
     callerVars, taskVars, WorkerPCs
<1>2. SlotInv'
  BY OwnerAssumption DEF ThreadInv, TypeOK, SlotInv, NoWorkerWithoutThread,
     ClearedBeforeCallback, MovedOut, CallbackHasTask, PollInterrupt,
     memberVars, callerVars, taskVars
<1>3. ReportInv'
  BY NothingMoved DEF ThreadInv, TypeOK, PollInterrupt, memberVars,
     callerVars, taskVars
<1> QED BY <1>1, <1>2, <1>3 DEF ThreadInv

LEMMA EndStagePreserves ==
    ASSUME ThreadInv, NEW s \in Slots, EndStage(s)
    PROVE  ThreadInv'
<1>1. TypeOK'
  <2>1. /\ wpc \in [Slots -> WorkerPCs]
        /\ stage \in [Slots -> Nat] /\ status \in [Slots -> BOOLEAN]
    BY DEF ThreadInv, TypeOK
  <2>2. wpc' \in [Slots -> WorkerPCs]
    BY <2>1 DEF EndStage, WorkerPCs
  <2>3. stage' \in [Slots -> Nat]
    BY <2>1 DEF EndStage
  <2>4. PICK ended \in BOOLEAN :
           status' = [status EXCEPT ![s] = StageContinues(s, ended)]
    BY DEF EndStage
  <2>5. StageContinues(s, ended) \in BOOLEAN
    BY DEF StageContinues
  <2>6. status' \in [Slots -> BOOLEAN]
    BY <2>1, <2>4, <2>5
  <2> QED BY <2>2, <2>3, <2>6
          DEF ThreadInv, TypeOK, EndStage, memberVars, callerVars, taskVars
<1>2. SlotInv'
  BY OwnerAssumption DEF ThreadInv, TypeOK, SlotInv, NoWorkerWithoutThread,
     ClearedBeforeCallback, MovedOut, CallbackHasTask, EndStage, memberVars,
     callerVars, taskVars
<1>3. ReportInv'
  BY NothingMoved DEF ThreadInv, TypeOK, EndStage, memberVars, callerVars,
     taskVars
<1> QED BY <1>1, <1>2, <1>3 DEF ThreadInv

LEMMA UseAfterFreePreserves ==
    ASSUME ThreadInv, NEW s \in Slots, UseAfterFree(s)
    PROVE  ThreadInv'
<1>1. TypeOK'
  BY OwnerAssumption DEF ThreadInv, TypeOK, UseAfterFree, memberVars,
     workerVars, callerVars, taskVars
<1>2. SlotInv'
  BY OwnerAssumption DEF ThreadInv, TypeOK, SlotInv, NoWorkerWithoutThread,
     ClearedBeforeCallback, MovedOut, CallbackHasTask, UseAfterFree,
     memberVars, workerVars, callerVars, taskVars
<1>3. ReportInv'
  BY NothingMoved DEF ThreadInv, TypeOK, UseAfterFree, memberVars, workerVars,
     callerVars, taskVars
<1> QED BY <1>1, <1>2, <1>3 DEF ThreadInv

LEMMA ClearRunningPreserves ==
    ASSUME ThreadInv, NEW s \in Slots, ClearRunning(s)
    PROVE  ThreadInv'
<1>1. TypeOK'
  BY OwnerAssumption DEF ThreadInv, TypeOK, ClearRunning, callerVars,
     taskVars, WorkerPCs
<1>2. SlotInv'
  BY OwnerAssumption DEF ThreadInv, TypeOK, SlotInv, NoWorkerWithoutThread,
     ClearedBeforeCallback, MovedOut, CallbackHasTask, ClearRunning,
     callerVars, taskVars
<1>3. ReportInv'
  BY NothingMoved DEF ThreadInv, TypeOK, ClearRunning, callerVars, taskVars
<1> QED BY <1>1, <1>2, <1>3 DEF ThreadInv

LEMMA set_task_and_runPreserves ==
    ASSUME ThreadInv, NEW s \in Slots, NEW t \in fresh \cup {NoTask},
           set_task_and_run(s, t), fresh' = fresh \ {t}
    PROVE  ThreadInv'
<1>1. TypeOK'
  BY DEF ThreadInv, TypeOK, set_task_and_run, memberVars, workerVars, Pointers,
     CallerPCs
<1>2. SlotInv'
  BY OwnerAssumption DEF ThreadInv, TypeOK, SlotInv, NoWorkerWithoutThread,
     ClearedBeforeCallback, MovedOut, CallbackHasTask, set_task_and_run,
     memberVars, workerVars
<1>3. OnePlace'
  BY OwnerAssumption, ThreadTaskAssumption DEF ThreadInv, TypeOK, ReportInv,
     OnePlace, FreshApart, ArgApart, TaskApart, TmpApart, set_task_and_run,
     memberVars, workerVars, Pointers
<1>4. NotYetReported' /\ AtMostOnce'
  BY OwnerAssumption, ThreadTaskAssumption DEF ThreadInv, TypeOK, ReportInv,
     OnePlace, FreshApart, ArgApart, TaskApart, TmpApart, NotYetReported,
     AtMostOnce, set_task_and_run, memberVars, workerVars, Pointers
<1> QED BY <1>1, <1>2, <1>3, <1>4 DEF ThreadInv, ReportInv

LEMMA AssignTaskPreserves ==
    ASSUME ThreadInv, AssignTask
    PROVE  ThreadInv'
<1>1. TypeOK'
  BY OwnerAssumption DEF ThreadInv, TypeOK, AssignTask, workerVars, Pointers,
     CallerPCs
<1>2. SlotInv'
  BY OwnerAssumption DEF ThreadInv, TypeOK, SlotInv, NoWorkerWithoutThread,
     ClearedBeforeCallback, MovedOut, CallbackHasTask, AssignTask, workerVars
<1>3. OnePlace'
  BY OwnerAssumption, ThreadTaskAssumption DEF ThreadInv, TypeOK, ReportInv,
     OnePlace, FreshApart, ArgApart, TaskApart, TmpApart, AssignTask,
     workerVars, Pointers
<1>4. NotYetReported' /\ AtMostOnce'
  BY OwnerAssumption, ThreadTaskAssumption DEF ThreadInv, TypeOK, ReportInv,
     OnePlace, FreshApart, ArgApart, TaskApart, TmpApart, NotYetReported,
     AtMostOnce, AssignTask, workerVars, Pointers
<1> QED BY <1>1, <1>2, <1>3, <1>4 DEF ThreadInv, ReportInv

LEMMA MoveTaskPreserves ==
    ASSUME ThreadInv, NEW s \in Slots, MoveTask(s)
    PROVE  ThreadInv'
<1>1. TypeOK'
  BY OwnerAssumption DEF ThreadInv, TypeOK, MoveTask, callerVars, taskVars,
     Pointers, WorkerPCs
<1>2. SlotInv'
  BY OwnerAssumption DEF ThreadInv, TypeOK, SlotInv, NoWorkerWithoutThread,
     ClearedBeforeCallback, MovedOut, CallbackHasTask, MoveTask, callerVars,
     taskVars
<1>3. OnePlace'
  BY OwnerAssumption, ThreadTaskAssumption DEF ThreadInv, TypeOK, ReportInv,
     OnePlace, FreshApart, ArgApart, TaskApart, TmpApart, MoveTask,
     callerVars, taskVars, Pointers
<1>4. NotYetReported' /\ AtMostOnce'
  BY OwnerAssumption, ThreadTaskAssumption DEF ThreadInv, TypeOK, ReportInv,
     OnePlace, FreshApart, ArgApart, TaskApart, TmpApart, NotYetReported,
     AtMostOnce, MoveTask, callerVars, taskVars, Pointers
<1> QED BY <1>1, <1>2, <1>3, <1>4 DEF ThreadInv, ReportInv

LEMMA completePreserves ==
    ASSUME ThreadInv, NEW s \in Slots, complete(s)
    PROVE  ThreadInv'
<1>1. TypeOK'
  <2>1. CASE tmp[s] = NoTask
    BY <2>1 DEF ThreadInv, TypeOK, complete, memberVars, callerVars
  <2>2. CASE tmp[s] # NoTask
    <3>1. /\ tmp[s] \in Tasks /\ status[s] \in BOOLEAN
          /\ callbacks \in [Tasks -> Seq(BOOLEAN)] /\ wpc \in [Slots -> WorkerPCs]
      BY <2>2 DEF ThreadInv, TypeOK, Pointers
    <3>2. Append(callbacks[tmp[s]], status[s]) \in Seq(BOOLEAN)
      BY <3>1
    <3>3. callbacks' \in [Tasks -> Seq(BOOLEAN)]
      BY <2>2, <3>1, <3>2 DEF complete
    <3>4. wpc' \in [Slots -> WorkerPCs]
      BY <2>2, <3>1 DEF complete, WorkerPCs
    <3> QED BY <2>2, <3>3, <3>4
            DEF ThreadInv, TypeOK, complete, memberVars, callerVars
  <2> QED BY <2>1, <2>2
<1>2. SlotInv'
  BY OwnerAssumption DEF ThreadInv, TypeOK, SlotInv, NoWorkerWithoutThread,
     ClearedBeforeCallback, MovedOut, CallbackHasTask, complete, memberVars,
     callerVars
<1>3. OnePlace'
  BY OwnerAssumption, ThreadTaskAssumption DEF ThreadInv, TypeOK, ReportInv,
     OnePlace, FreshApart, ArgApart, TaskApart, TmpApart, complete,
     memberVars, callerVars, Pointers
<1>4. NotYetReported' /\ AtMostOnce'
  <2>1. CASE tmp[s] = NoTask
    BY <2>1 DEF ThreadInv, ReportInv, NotYetReported, AtMostOnce, complete,
       callerVars,
       memberVars
  <2>2. CASE tmp[s] # NoTask
    <3>1. /\ tmp[s] \in Tasks /\ callbacks \in [Tasks -> Seq(BOOLEAN)]
          /\ wpc \in [Slots -> WorkerPCs]
      BY <2>2 DEF ThreadInv, TypeOK, Pointers
    <3>2. /\ callbacks' = [callbacks EXCEPT ![tmp[s]] = Append(@, status[s])]
          /\ wpc[s] = "complete" /\ wpc' = [wpc EXCEPT ![s] = "callback"]
          /\ UNCHANGED <<tmp, task_, arg, fresh>>
      BY <2>2 DEF complete, memberVars, callerVars
    <3>3. callbacks[tmp[s]] = <<>>
      BY <2>2, <3>2 DEF ThreadInv, ReportInv, NotYetReported
    <3>4. AtMostOnce'
      BY <3>1, <3>2, <3>3 DEF ThreadInv, ReportInv, AtMostOnce
    <3>5. ASSUME NEW t \in Tasks, t # tmp[s], callbacks[t] = <<>>
          PROVE  callbacks'[t] = <<>>
      BY <3>1, <3>2, <3>5
    <3>6. /\ tmp[s] \notin fresh /\ arg[Owner] # tmp[s]
          /\ \A r \in Slots : task_[r] # tmp[s] /\ (r # s => tmp[r] # tmp[s])
      BY <2>2, <3>1, ThreadTaskAssumption DEF ThreadInv, ReportInv, OnePlace,
         FreshApart, ArgApart, TaskApart, TmpApart
    <3>7. /\ fresh \subseteq Tasks /\ arg[Owner] \in Pointers
          /\ \A r \in Slots : task_[r] \in Pointers /\ tmp[r] \in Pointers
      BY OwnerAssumption DEF ThreadInv, TypeOK
    <3>8. \A r \in Slots : r # s => wpc'[r] = wpc[r]
      BY <3>1, <3>2
    <3>9. wpc'[s] = "callback"
      BY <3>1, <3>2
    <3> QED BY <3>2, <3>4, <3>5, <3>6, <3>7, <3>8, <3>9
            DEF ThreadInv, ReportInv, NotYetReported, Pointers
  <2> QED BY <2>1, <2>2
<1> QED BY <1>1, <1>2, <1>3, <1>4 DEF ThreadInv, ReportInv

LEMMA FinishWorkerPreserves ==
    ASSUME ThreadInv, NEW s \in Slots, FinishWorker(s)
    PROVE  ThreadInv'
<1>1. TypeOK'
  <2>1. /\ wpc \in [Slots -> WorkerPCs] /\ tmp \in [Slots -> Pointers]
        /\ iterated \in [Slots -> Pointers] /\ status \in [Slots -> BOOLEAN]
        /\ stage \in [Slots -> Nat]
    BY DEF ThreadInv, TypeOK
  <2>2. wpc' \in [Slots -> WorkerPCs]
    BY <2>1 DEF FinishWorker, WorkerPCs
  <2>3. tmp' \in [Slots -> Pointers] /\ iterated' \in [Slots -> Pointers]
    BY <2>1 DEF FinishWorker, Pointers
  <2>4. status' \in [Slots -> BOOLEAN] /\ stage' \in [Slots -> Nat]
    BY <2>1 DEF FinishWorker
  <2>5. tmp[s] \in Tasks
    BY DEF FinishWorker, ThreadInv, CallbackHasTask, Pointers, TypeOK, SlotInv
  <2>6. destroyed' \subseteq Tasks
    BY <2>5 DEF FinishWorker, ThreadInv, TypeOK
  <2> QED BY <2>2, <2>3, <2>4, <2>6
          DEF ThreadInv, TypeOK, FinishWorker, memberVars, callerVars
<1>2. SlotInv'
  BY OwnerAssumption DEF ThreadInv, TypeOK, SlotInv, NoWorkerWithoutThread,
     ClearedBeforeCallback, MovedOut, CallbackHasTask, FinishWorker,
     memberVars, callerVars
<1>3. OnePlace'
  BY OwnerAssumption, ThreadTaskAssumption DEF ThreadInv, TypeOK, ReportInv,
     OnePlace, FreshApart, ArgApart, TaskApart, TmpApart, FinishWorker,
     memberVars, callerVars, Pointers
<1>4. NotYetReported' /\ AtMostOnce'
  BY OwnerAssumption, ThreadTaskAssumption DEF ThreadInv, TypeOK, ReportInv,
     OnePlace, FreshApart, ArgApart, TaskApart, TmpApart, NotYetReported,
     AtMostOnce, FinishWorker, memberVars, callerVars, Pointers
<1> QED BY <1>1, <1>2, <1>3, <1>4 DEF ThreadInv, ReportInv

-----------------------------------------------------------------------------
LEMMA InitialThreadInv == Init => ThreadInv
<1>1. SUFFICES ASSUME Init PROVE ThreadInv
  OBVIOUS
<1>2. TypeOK
  <2>1. /\ task_ \in [Slots -> Pointers] /\ iterated \in [Slots -> Pointers]
        /\ tmp \in [Slots -> Pointers]
        /\ arg \in [Callers -> Pointers] /\ seen \in [Callers -> Pointers]
    BY <1>1 DEF Init, ThreadInit, Pointers
  <2>2. wpc \in [Slots -> WorkerPCs] /\ cpc \in [Callers -> CallerPCs]
    BY <1>1 DEF Init, ThreadInit, WorkerPCs, CallerPCs
  <2>3. /\ task_lock_ \in [Slots -> Callers \cup {"free", "worker"}]
        /\ thread_ \in [Slots -> {"none", "joinable"}]
        /\ slot \in [Callers -> Slots] /\ after \in [Callers -> {"idle", "join"}]
    BY <1>1 DEF Init, ThreadInit
  <2>4. /\ interrupt_ \in [Slots -> BOOLEAN] /\ running_ \in [Slots -> BOOLEAN]
        /\ stage \in [Slots -> Nat] /\ status \in [Slots -> BOOLEAN]
        /\ flag \in [Callers -> BOOLEAN] /\ killed \in [Tasks -> BOOLEAN]
        /\ started \in BOOLEAN
    BY <1>1 DEF Init, ThreadInit
  <2>5. callbacks \in [Tasks -> Seq(BOOLEAN)]
    BY <1>1 DEF Init, ThreadInit
  <2> QED BY <1>1, <2>1, <2>2, <2>3, <2>4, <2>5 DEF Init, TypeOK
<1>3. SlotInv
  BY <1>1 DEF Init, ThreadInit, SlotInv, NoWorkerWithoutThread,
     ClearedBeforeCallback, MovedOut, CallbackHasTask
<1>4. OnePlace
  BY <1>1, OwnerAssumption, ThreadTaskAssumption
  DEF Init, ThreadInit, OnePlace, FreshApart, ArgApart, TaskApart, TmpApart
<1>5. NotYetReported /\ AtMostOnce
  BY <1>1, OwnerAssumption DEF Init, ThreadInit, NotYetReported, AtMostOnce
<1> QED BY <1>2, <1>3, <1>4, <1>5 DEF ThreadInv, ReportInv

LEMMA NextThreadInv == ThreadInv /\ [Next]_vars => ThreadInv'
<1>1. SUFFICES ASSUME ThreadInv, [Next]_vars PROVE ThreadInv'
  OBVIOUS
<1>2. CASE UNCHANGED vars
  <2>1. TypeOK' /\ SlotInv'
    BY <1>1, <1>2 DEF ThreadInv, TypeOK, SlotInv, NoWorkerWithoutThread,
       ClearedBeforeCallback, MovedOut, CallbackHasTask, vars, memberVars,
       workerVars, callerVars, taskVars
  <2>2. ReportInv'
    BY <1>1, <1>2, NothingMoved DEF vars, memberVars, workerVars, callerVars, taskVars
  <2> QED BY <2>1, <2>2 DEF ThreadInv
<1>3. CASE OwnerStep \/ SpuriousReturn
  BY <1>1, <1>3, AssignTaskPreserves, SpawnThreadPreserves, EnterWaitPreserves,
     ReturnStartedPreserves, JoinPreserves, SpuriousReturnPreserves DEF OwnerStep
<1>4. ASSUME NEW c \in Callers, CallerStep(c) PROVE ThreadInv'
  BY <1>1, <1>4, TestTaskPreserves, KillTaskPreserves, StoreInterruptPreserves
  DEF CallerStep
<1>5. ASSUME NEW s \in Slots, WorkerProgress(s) \/ LockForStage(s) \/ UseAfterFree(s)
      PROVE  ThreadInv'
  BY <1>1, <1>5, NotifyPreserves, CheckTaskPreserves, MarkRunningPreserves,
     RunStagePreserves, PollInterruptPreserves, EndStagePreserves,
     MoveTaskPreserves, ClearRunningPreserves, completePreserves,
     FinishWorkerPreserves, LockForStagePreserves, UseAfterFreePreserves
  DEF WorkerProgress
<1>6. CASE ClientCall
  BY <1>1, <1>6, set_task_and_runPreserves, shutdownPreserves,
     set_interruptPreserves, InterruptArgsAssumption DEF ClientCall
<1> QED BY <1>1, <1>2, <1>3, <1>4, <1>5, <1>6 DEF Next, ThreadStep

\* The inductive invariant, with the types of the state, holds in every
\* behaviour of the slots, their workers and their callers.
THEOREM ThreadInvariant == Spec => []ThreadInv
  BY InitialThreadInv, NextThreadInv, PTL DEF Spec

\* The worker of set_task_and_run calls a task's completion callback at most
\* once, whatever the callers do meanwhile, and never for a task that was not
\* handed to a slot.
THEOREM CallbackOnce == Spec => []CompletedOnce
<1>1. ThreadInv => CompletedOnce
  BY DEF ThreadInv, ReportInv, NotYetReported, AtMostOnce, CompletedOnce
<1> QED BY <1>1, ThreadInvariant, PTL

\* In the callback running_ is false and task_ null, unless the owner is
\* inside a start of the slot that terminates the process.
THEOREM CallbackIdle == Spec => []CallbackSeesIdleSlot
<1>1. ThreadInv => CallbackSeesIdleSlot
  BY DEF ThreadInv, SlotInv, ClearedBeforeCallback, MovedOut, CallbackSeesIdleSlot
<1> QED BY <1>1, ThreadInvariant, PTL

-----------------------------------------------------------------------------
(* A kill during the stages is final.                                      *)

StagePCs == {"lock", "run", "poll", "end"}

\* The task whose stages are iterated has not reported; it is the slot's, or
\* a new start has destroyed it.
IterInv ==
    \A s \in Slots : wpc[s] \in StagePCs =>
        /\ iterated[s] \in Tasks /\ callbacks[iterated[s]] = <<>>
        /\ task_[s] = iterated[s] \/ iterated[s] \in destroyed

\* On slot s task t will report failure or nothing.
FailingOn(s, t) ==
    \/ wpc[s] \in StagePCs /\ iterated[s] = t /\ task_[s] = t
    \/ wpc[s] = "move" /\ task_[s] = t /\ ~status[s]
    \/ wpc[s] \in {"clear", "complete"} /\ tmp[s] = t /\ ~status[s]

\* Task t is killed and can no longer report success.
Doomed(t) ==
    /\ killed[t] /\ callbacks[t] # <<TRUE>>
    /\ t \in destroyed \/ callbacks[t] # <<>> \/ \E s \in Slots : FailingOn(s, t)

\* What neither a worker nor the assignment of a task changes.
WorkerUntouched == UNCHANGED <<task_, workerVars, callbacks, destroyed>>

\* A step that only continues the iteration on slot s.
StageStep(s) ==
    /\ wpc[s] \in {"lock", "run", "poll"}
    /\ \E pc \in StagePCs : wpc' = [wpc EXCEPT ![s] = pc]
    /\ UNCHANGED <<task_, iterated, tmp, killed, callbacks, destroyed>>
    /\ \A r \in Slots : r # s => status'[r] = status[r]

\* A step of slot s outside the stages and before or after the move.
IdleStep(s) ==
    /\ \/ wpc[s] \in {"start", "check", "off", "done"} /\ wpc' = wpc
       \/ /\ wpc[s] \in {"start", "check", "off", "done"}
          /\ \E pc \in {"start", "check", "mark", "off", "done"} :
                wpc' = [wpc EXCEPT ![s] = pc]
       \/ /\ wpc[s] = "clear" /\ wpc' = [wpc EXCEPT ![s] = "complete"]
    /\ UNCHANGED <<task_, iterated, tmp, status, killed, callbacks, destroyed>>

LEMMA WorkerUntouchedPreserves ==
    ASSUME ThreadInv, IterInv, WorkerUntouched,
           \A t \in Tasks : killed[t] => killed'[t]
    PROVE  IterInv' /\ \A t \in Tasks : Doomed(t) => Doomed(t)'
<1>1. IterInv'
  BY DEF IterInv, WorkerUntouched, workerVars
<1>2. ASSUME NEW t \in Tasks, Doomed(t) PROVE Doomed(t)'
  BY <1>2 DEF Doomed, FailingOn, WorkerUntouched, workerVars
<1> QED BY <1>1, <1>2

LEMMA StageStepPreserves ==
    ASSUME ThreadInv, IterInv, NEW s \in Slots, StageStep(s)
    PROVE  IterInv' /\ \A t \in Tasks : Doomed(t) => Doomed(t)'
<1>1. wpc \in [Slots -> WorkerPCs] /\ wpc'[s] \in StagePCs
  BY DEF ThreadInv, TypeOK, StageStep, StagePCs
<1>2. \A r \in Slots : r # s => wpc'[r] = wpc[r]
  BY <1>1 DEF StageStep
<1>3. wpc[s] \in StagePCs
  BY DEF StageStep, StagePCs
<1>4. IterInv'
  BY <1>1, <1>2, <1>3 DEF IterInv, StageStep
<1>5. ASSUME NEW t \in Tasks, NEW r \in Slots, FailingOn(r, t) PROVE FailingOn(r, t)'
  <2>1. CASE r = s
    BY <1>1, <1>3, <1>5, <2>1 DEF FailingOn, StageStep, StagePCs
  <2>2. CASE r # s
    BY <1>2, <1>5, <2>2 DEF FailingOn, StageStep
  <2> QED BY <2>1, <2>2
<1>6. ASSUME NEW t \in Tasks, Doomed(t) PROVE Doomed(t)'
  BY <1>5, <1>6 DEF Doomed, StageStep
<1> QED BY <1>4, <1>6

LEMMA IdleStepPreserves ==
    ASSUME ThreadInv, IterInv, NEW s \in Slots, IdleStep(s)
    PROVE  IterInv' /\ \A t \in Tasks : Doomed(t) => Doomed(t)'
<1>1. wpc \in [Slots -> WorkerPCs]
  BY DEF ThreadInv, TypeOK
<1>2. \A r \in Slots : \/ wpc'[r] = wpc[r]
                       \/ wpc[r] = "clear" /\ wpc'[r] = "complete"
                       \/ /\ wpc[r] \notin StagePCs \cup {"move", "clear", "complete"}
                          /\ wpc'[r] \notin StagePCs \cup {"move", "clear", "complete"}
  BY <1>1 DEF IdleStep, StagePCs
<1>3. IterInv'
  BY <1>2 DEF IterInv, IdleStep, StagePCs
<1>4. ASSUME NEW t \in Tasks, NEW r \in Slots, FailingOn(r, t) PROVE FailingOn(r, t)'
  BY <1>2, <1>4 DEF FailingOn, IdleStep, StagePCs
<1>5. ASSUME NEW t \in Tasks, Doomed(t) PROVE Doomed(t)'
  BY <1>4, <1>5 DEF Doomed, IdleStep
<1> QED BY <1>3, <1>5

LEMMA AssignTaskKeeps ==
    ASSUME ThreadInv, IterInv, AssignTask
    PROVE  IterInv' /\ \A t \in Tasks : Doomed(t) => Doomed(t)'
<1> PICK q \in Slots : q = slot[Owner]
  BY OwnerAssumption DEF ThreadInv, TypeOK
<1>1. /\ task_' = [task_ EXCEPT ![q] = arg[Owner]] /\ task_ \in [Slots -> Pointers]
      /\ destroyed' = destroyed \cup ({task_[q]} \ {NoTask})
      /\ UNCHANGED <<wpc, iterated, status, tmp, killed, callbacks>>
  BY DEF AssignTask, workerVars, ThreadInv, TypeOK
<1>2. /\ \A r \in Slots : r # q => task_'[r] = task_[r]
      /\ \A r \in Slots : task_[r] \in Tasks => task_'[r] = task_[r] \/ task_[r] \in destroyed'
  BY <1>1, ThreadTaskAssumption DEF Pointers
<1>3. IterInv'
  BY <1>1, <1>2 DEF IterInv
<1>4. ASSUME NEW t \in Tasks, Doomed(t) PROVE Doomed(t)'
  BY <1>1, <1>2, <1>4 DEF Doomed, FailingOn
<1> QED BY <1>3, <1>4

\* The iteration starts on the slot's task, which has not reported.
LEMMA MarkRunningKeeps ==
    ASSUME ThreadInv, IterInv, NEW s \in Slots, MarkRunning(s)
    PROVE  IterInv' /\ \A t \in Tasks : Doomed(t) => Doomed(t)'
<1>1. CASE task_[s] = NoTask
  <2>1. WorkerUntouched /\ killed' = killed
    BY <1>1 DEF MarkRunning, WorkerUntouched, taskVars
  <2> QED BY <2>1, WorkerUntouchedPreserves
<1>2. CASE task_[s] # NoTask
  <2>1. /\ wpc[s] = "mark" /\ \E pc \in {"move", "lock"} : wpc' = [wpc EXCEPT ![s] = pc]
        /\ iterated' = [iterated EXCEPT ![s] = task_[s]]
        /\ UNCHANGED <<task_, tmp, killed, callbacks, destroyed>>
    BY <1>2 DEF MarkRunning, taskVars
  <2>2. \E b : status' = [status EXCEPT ![s] = b]
    BY <1>2 DEF MarkRunning
  <2>3. /\ task_[s] \in Tasks /\ callbacks[task_[s]] = <<>>
        /\ iterated'[s] = task_[s]
    BY <1>2, <2>1 DEF ThreadInv, TypeOK, Pointers, ReportInv, NotYetReported
  <2>4. \A r \in Slots : r # s => /\ wpc'[r] = wpc[r] /\ iterated'[r] = iterated[r]
                                 /\ status'[r] = status[r]
    BY <2>1, <2>2 DEF ThreadInv, TypeOK
  <2>5. IterInv'
    BY <2>1, <2>3, <2>4 DEF IterInv
  <2>6. ASSUME NEW t \in Tasks, NEW r \in Slots, FailingOn(r, t) PROVE FailingOn(r, t)'
    <3>1. r # s
      BY <2>1, <2>6 DEF FailingOn, StagePCs
    <3> QED BY <2>1, <2>4, <2>6, <3>1 DEF FailingOn
  <2>7. ASSUME NEW t \in Tasks, Doomed(t) PROVE Doomed(t)'
    BY <2>1, <2>6, <2>7 DEF Doomed
  <2> QED BY <2>5, <2>7
<1> QED BY <1>1, <1>2

\* The predicate of all_of reads kill_: the stage of a killed task is its last
\* and the status is false.
LEMMA EndStageKeeps ==
    ASSUME ThreadInv, IterInv, NEW s \in Slots, EndStage(s)
    PROVE  IterInv' /\ \A t \in Tasks : Doomed(t) => Doomed(t)'
<1>1. PICK ret \in BOOLEAN :
        /\ status' = [status EXCEPT ![s] = ret]
        /\ wpc' = [wpc EXCEPT ![s] = "move"] \/ (ret /\ wpc' = [wpc EXCEPT ![s] = "lock"])
        /\ killed[iterated[s]] => ~ret
  BY DEF EndStage, StageContinues
<1>2. /\ wpc[s] = "end"
      /\ UNCHANGED <<task_, iterated, tmp, killed, callbacks, destroyed>>
  BY DEF EndStage, memberVars, taskVars
<1>3. wpc \in [Slots -> WorkerPCs] /\ status \in [Slots -> BOOLEAN]
  BY DEF ThreadInv, TypeOK
<1>4. /\ \A r \in Slots : r # s => wpc'[r] = wpc[r] /\ status'[r] = status[r]
      /\ status'[s] = ret /\ wpc'[s] \in {"move", "lock"} /\ (~ret => wpc'[s] = "move")
  BY <1>1, <1>3
<1>5. IterInv'
  BY <1>2, <1>4 DEF IterInv, StagePCs
<1>6. ASSUME NEW t \in Tasks, killed[t], NEW r \in Slots, FailingOn(r, t)
      PROVE  FailingOn(r, t)'
  <2>1. CASE r # s
    BY <1>2, <1>4, <1>6, <2>1 DEF FailingOn
  <2>2. CASE r = s
    <3>1. iterated[s] = t /\ task_[s] = t
      BY <1>2, <1>6, <2>2 DEF FailingOn, StagePCs
    <3>2. ~ret
      BY <1>1, <1>6, <3>1
    <3> QED BY <1>2, <1>4, <2>2, <3>1, <3>2 DEF FailingOn
  <2> QED BY <2>1, <2>2
<1>7. ASSUME NEW t \in Tasks, Doomed(t) PROVE Doomed(t)'
  BY <1>2, <1>6, <1>7 DEF Doomed
<1> QED BY <1>5, <1>7

LEMMA MoveTaskKeeps ==
    ASSUME ThreadInv, IterInv, NEW s \in Slots, MoveTask(s)
    PROVE  IterInv' /\ \A t \in Tasks : Doomed(t) => Doomed(t)'
<1>1. /\ wpc[s] = "move" /\ wpc' = [wpc EXCEPT ![s] = "clear"]
      /\ tmp' = [tmp EXCEPT ![s] = task_[s]] /\ task_' = [task_ EXCEPT ![s] = NoTask]
      /\ UNCHANGED <<iterated, status, killed, callbacks, destroyed>>
  BY DEF MoveTask, taskVars
<1>2. /\ \A r \in Slots : r # s => wpc'[r] = wpc[r] /\ tmp'[r] = tmp[r] /\ task_'[r] = task_[r]
      /\ wpc'[s] = "clear" /\ tmp'[s] = task_[s]
  BY <1>1 DEF ThreadInv, TypeOK
<1>3. IterInv'
  BY <1>1, <1>2 DEF IterInv, StagePCs
<1>4. ASSUME NEW t \in Tasks, NEW r \in Slots, FailingOn(r, t) PROVE FailingOn(r, t)'
  BY <1>1, <1>2, <1>4 DEF FailingOn, StagePCs
<1>5. ASSUME NEW t \in Tasks, Doomed(t) PROVE Doomed(t)'
  BY <1>1, <1>4, <1>5 DEF Doomed
<1> QED BY <1>3, <1>5

\* The callback of a doomed task gets the status false.
LEMMA completeKeeps ==
    ASSUME ThreadInv, IterInv, NEW s \in Slots, complete(s)
    PROVE  IterInv' /\ \A t \in Tasks : Doomed(t) => Doomed(t)'
<1>1. CASE tmp[s] = NoTask
  <2>1. WorkerUntouched /\ killed' = killed
    BY <1>1 DEF complete, WorkerUntouched, workerVars, memberVars
  <2> QED BY <2>1, WorkerUntouchedPreserves
<1>2. CASE tmp[s] # NoTask
  <2>1. /\ wpc[s] = "complete" /\ wpc' = [wpc EXCEPT ![s] = "callback"]
        /\ callbacks' = [callbacks EXCEPT ![tmp[s]] = Append(@, status[s])]
        /\ UNCHANGED <<task_, iterated, status, tmp, killed, destroyed>>
    BY <1>2 DEF complete, memberVars
  <2>2. /\ tmp[s] \in Tasks /\ status[s] \in BOOLEAN
        /\ callbacks \in [Tasks -> Seq(BOOLEAN)] /\ wpc \in [Slots -> WorkerPCs]
    BY <1>2 DEF ThreadInv, TypeOK, Pointers
  <2>3. callbacks[tmp[s]] = <<>> /\ tmp[s] \notin destroyed
    BY <1>2, <2>1 DEF ThreadInv, ReportInv, NotYetReported, OnePlace, TmpApart
  <2>4. \A r \in Slots : task_[r] # tmp[s] /\ (r # s => tmp[r] # tmp[s])
    BY <1>2, <2>2, ThreadTaskAssumption
    DEF ThreadInv, ReportInv, OnePlace, TaskApart, TmpApart
  <2>5. /\ \A r \in Slots : r # s => wpc'[r] = wpc[r]
        /\ wpc'[s] = "callback"
        /\ \A t \in Tasks : t # tmp[s] => callbacks'[t] = callbacks[t]
        /\ callbacks'[tmp[s]] = <<status[s]>>
    BY <2>1, <2>2, <2>3
  <2>6. IterInv'
    <3>1. SUFFICES ASSUME NEW r \in Slots, wpc'[r] \in StagePCs
                   PROVE  /\ iterated[r] \in Tasks /\ callbacks'[iterated[r]] = <<>>
                          /\ task_[r] = iterated[r] \/ iterated[r] \in destroyed
      BY <2>1 DEF IterInv
    <3>2. wpc[r] \in StagePCs
      BY <2>5, <3>1 DEF StagePCs
    <3>3. iterated[r] # tmp[s]
      BY <2>3, <2>4, <3>2 DEF IterInv
    <3> QED BY <2>5, <3>2, <3>3 DEF IterInv
  <2>7. ASSUME NEW t \in Tasks, Doomed(t) PROVE Doomed(t)'
    <3>1. CASE t = tmp[s]
      <4>1. PICK r \in Slots : FailingOn(r, t)
        BY <2>3, <2>7, <3>1 DEF Doomed
      <4>2. ~status[s]
        BY <2>1, <2>4, <3>1, <4>1 DEF FailingOn, StagePCs
      <4>3. callbacks'[t] = <<FALSE>>
        BY <2>2, <2>5, <3>1, <4>2
      <4>4. callbacks'[t] # <<TRUE>> /\ callbacks'[t] # <<>>
        BY <4>3
      <4> QED BY <2>1, <2>7, <4>4 DEF Doomed
    <3>2. CASE t # tmp[s]
      <4>1. ASSUME NEW r \in Slots, FailingOn(r, t) PROVE FailingOn(r, t)'
        BY <2>1, <2>5, <3>2, <4>1 DEF FailingOn, StagePCs
      <4> QED BY <2>1, <2>5, <2>7, <3>2, <4>1 DEF Doomed
    <3> QED BY <3>1, <3>2
  <2> QED BY <2>6, <2>7
<1> QED BY <1>1, <1>2

LEMMA FinishWorkerKeeps ==
    ASSUME ThreadInv, IterInv, NEW s \in Slots, FinishWorker(s)
    PROVE  IterInv' /\ \A t \in Tasks : Doomed(t) => Doomed(t)'
<1>1. /\ wpc[s] = "callback" /\ destroyed \subseteq destroyed'
      /\ wpc' = [wpc EXCEPT ![s] = "done"] /\ tmp' = [tmp EXCEPT ![s] = NoTask]
      /\ iterated' = [iterated EXCEPT ![s] = NoTask]
      /\ status' = [status EXCEPT ![s] = FALSE]
      /\ UNCHANGED <<task_, killed, callbacks>>
  BY DEF FinishWorker, memberVars
<1>2. /\ \A r \in Slots : r # s => /\ wpc'[r] = wpc[r] /\ tmp'[r] = tmp[r]
                                   /\ iterated'[r] = iterated[r]
                                   /\ status'[r] = status[r]
      /\ wpc'[s] = "done"
  BY <1>1 DEF ThreadInv, TypeOK
<1>3. IterInv'
  BY <1>1, <1>2 DEF IterInv, StagePCs
<1>4. ASSUME NEW t \in Tasks, NEW r \in Slots, FailingOn(r, t) PROVE FailingOn(r, t)'
  <2>1. r # s
    BY <1>1, <1>4 DEF FailingOn, StagePCs
  <2> QED BY <1>1, <1>2, <1>4, <2>1 DEF FailingOn
<1>5. ASSUME NEW t \in Tasks, Doomed(t) PROVE Doomed(t)'
  BY <1>1, <1>4, <1>5 DEF Doomed
<1> QED BY <1>3, <1>5

\* The steps of callers and of the calls clients make touch no worker.
LEMMA CallersKeep ==
    ASSUME ThreadInv, IterInv,
           \/ EnterWait \/ SpuriousReturn \/ ReturnStarted \/ ClientCall
           \/ UNCHANGED vars
           \/ \E c \in Callers : TestTask(c) \/ StoreInterrupt(c)
           \/ \E s \in Slots : UseAfterFree(s)
    PROVE  IterInv' /\ \A t \in Tasks : Doomed(t) => Doomed(t)'
<1>1. WorkerUntouched /\ killed' = killed
  BY DEF WorkerUntouched, EnterWait, SpuriousReturn, ReturnStarted, ClientCall,
     set_task_and_run, shutdown, set_interrupt, TestTask, StoreInterrupt,
     UseAfterFree, vars, memberVars, workerVars, callerVars, taskVars
<1> QED BY <1>1, WorkerUntouchedPreserves

LEMMA KillTaskKeeps ==
    ASSUME ThreadInv, IterInv, NEW c \in Callers, KillTask(c)
    PROVE  IterInv' /\ \A t \in Tasks : Doomed(t) => Doomed(t)'
<1>1. WorkerUntouched
  BY DEF WorkerUntouched, KillTask, workerVars
<1>2. killed \in [Tasks -> BOOLEAN] /\ \/ killed' = killed
                                       \/ \E p : killed' = [killed EXCEPT ![p] = TRUE]
  BY DEF KillTask, ThreadInv, TypeOK
<1>3. \A t \in Tasks : killed[t] => killed'[t]
  BY <1>2
<1> QED BY <1>1, <1>3, WorkerUntouchedPreserves

LEMMA StageStepsKeep ==
    ASSUME ThreadInv, IterInv, NEW s \in Slots,
           LockForStage(s) \/ RunStage(s) \/ PollInterrupt(s)
    PROVE  IterInv' /\ \A t \in Tasks : Doomed(t) => Doomed(t)'
<1>1. status \in [Slots -> BOOLEAN]
  BY DEF ThreadInv, TypeOK
<1>2. CASE LockForStage(s)
  BY <1>2, StageStepPreserves DEF LockForStage, StageStep, StagePCs, taskVars
<1>3. CASE RunStage(s)
  <2>1. \A r \in Slots : r # s => status'[r] = status[r]
    BY <1>1, <1>3 DEF RunStage
  <2> QED BY <1>3, <2>1, StageStepPreserves DEF RunStage, StageStep, StagePCs, taskVars
<1>4. CASE PollInterrupt(s)
  <2>1. \A r \in Slots : r # s => status'[r] = status[r]
    BY <1>1, <1>4 DEF PollInterrupt
  <2> QED BY <1>4, <2>1, StageStepPreserves
          DEF PollInterrupt, StageStep, StagePCs, memberVars, taskVars
<1> QED BY <1>2, <1>3, <1>4

LEMMA IdleStepsKeep ==
    ASSUME ThreadInv, IterInv, NEW s \in Slots,
           Notify(s) \/ CheckTask(s) \/ ClearRunning(s)
    PROVE  IterInv' /\ \A t \in Tasks : Doomed(t) => Doomed(t)'
<1>1. IdleStep(s)
  BY DEF Notify, CheckTask, ClearRunning, IdleStep, memberVars, taskVars
<1> QED BY <1>1, IdleStepPreserves

\* A thread is created on a slot without one, joined when it is done.
LEMMA ThreadsKeep ==
    ASSUME ThreadInv, IterInv, SpawnThread \/ Join
    PROVE  IterInv' /\ \A t \in Tasks : Doomed(t) => Doomed(t)'
<1> PICK q \in Slots : q = slot[Owner]
  BY OwnerAssumption DEF ThreadInv, TypeOK
<1>1. CASE SpawnThread
  <2>1. CASE thread_[q] = "joinable"
    <3>1. WorkerUntouched /\ killed' = killed
      BY <1>1, <2>1 DEF SpawnThread, WorkerUntouched, workerVars, taskVars
    <3> QED BY <3>1, WorkerUntouchedPreserves
  <2>2. CASE thread_[q] # "joinable"
    <3>1. wpc[q] = "off"
      BY <2>2 DEF ThreadInv, TypeOK, SlotInv, NoWorkerWithoutThread
    <3>2. IdleStep(q)
      BY <1>1, <2>2, <3>1 DEF SpawnThread, IdleStep, taskVars
    <3> QED BY <3>2, IdleStepPreserves
  <2> QED BY <2>1, <2>2
<1>2. CASE Join
  <2>1. CASE UNCHANGED wpc
    <3>1. WorkerUntouched /\ killed' = killed
      BY <1>2, <2>1 DEF Join, WorkerUntouched, workerVars, taskVars
    <3> QED BY <3>1, WorkerUntouchedPreserves
  <2>2. CASE wpc[q] = "done" /\ wpc' = [wpc EXCEPT ![q] = "off"]
    <3>1. IdleStep(q)
      BY <1>2, <2>2 DEF Join, IdleStep, taskVars
    <3> QED BY <3>1, IdleStepPreserves
  <2> QED BY <1>2, <2>1, <2>2 DEF Join
<1> QED BY <1>1, <1>2

LEMMA NextKeeps ==
    ASSUME ThreadInv, IterInv, [Next]_vars
    PROVE  IterInv' /\ \A t \in Tasks : Doomed(t) => Doomed(t)'
<1>1. ASSUME NEW c \in Callers, CallerStep(c)
      PROVE  IterInv' /\ \A t \in Tasks : Doomed(t) => Doomed(t)'
  BY <1>1, CallersKeep, KillTaskKeeps DEF CallerStep
<1>2. ASSUME NEW s \in Slots, WorkerProgress(s) \/ LockForStage(s)
      PROVE  IterInv' /\ \A t \in Tasks : Doomed(t) => Doomed(t)'
  BY <1>2, IdleStepsKeep, StageStepsKeep, MarkRunningKeeps, EndStageKeeps,
     MoveTaskKeeps, completeKeeps, FinishWorkerKeeps DEF WorkerProgress
<1>3. CASE OwnerStep
  BY <1>3, AssignTaskKeeps, ThreadsKeep, CallersKeep DEF OwnerStep
<1> QED BY <1>1, <1>2, <1>3, CallersKeep DEF Next, ThreadStep

\* The bookkeeping of the iteration holds in every behaviour.
THEOREM IterationInvariant == Spec => []IterInv
<1>1. Init => IterInv
  BY DEF Init, ThreadInit, IterInv, StagePCs
<1>2. ThreadInv /\ IterInv /\ [Next]_vars => IterInv'
  BY NextKeeps
<1> QED BY <1>1, <1>2, ThreadInvariant, PTL DEF Spec

LEMMA KilledTaskFails ==
    ASSUME NEW t \in Tasks
    PROVE  Spec => [](killed[t] /\ Iterating(t) => [](callbacks[t] # <<TRUE>>))
<1>1. ThreadInv /\ IterInv /\ killed[t] /\ Iterating(t) => Doomed(t)
  <2>1. SUFFICES ASSUME IterInv, killed[t], Iterating(t) PROVE Doomed(t)
    OBVIOUS
  <2>2. PICK s \in Slots : wpc[s] \in StagePCs /\ iterated[s] = t
    BY <2>1 DEF Iterating, StagePCs
  <2>3. callbacks[t] = <<>> /\ (task_[s] = t \/ t \in destroyed)
    BY <2>1, <2>2 DEF IterInv
  <2>4. callbacks[t] # <<TRUE>>
    BY <2>3
  <2> QED BY <2>1, <2>2, <2>3, <2>4 DEF Doomed, FailingOn
<1>2. ThreadInv /\ IterInv /\ Doomed(t) /\ [Next]_vars => Doomed(t)'
  BY NextKeeps
<1>3. Doomed(t) => callbacks[t] # <<TRUE>>
  BY DEF Doomed
<1> QED BY <1>1, <1>2, <1>3, ThreadInvariant, IterationInvariant, PTL DEF Spec

\* A task killed by set_interrupt while its stages are iterated never reports
\* success, even when all its stages run and whatever happens to the slot.
THEOREM KillIsFinal == Spec => KillPreventsSuccess
<1>1. \A t \in Tasks :
        (Spec => [](killed[t] /\ Iterating(t) => [](callbacks[t] # <<TRUE>>)))
  BY KilledTaskFails
<1> QED BY <1>1 DEF KillPreventsSuccess

=============================================================================
