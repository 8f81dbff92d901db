-------------------------- MODULE TaskEngineProofs --------------------------
(* Theorems about TaskEngine, for every value of its constants.            *)
EXTENDS TaskEngine, FiniteSetTheorems, TLAPS

-----------------------------------------------------------------------------
(* Type correctness.                                                       *)

\* The state of a process that is not running is well typed.
LEMMA TypeInit == Init => TypeOK
<1> SUFFICES ASSUME Init PROVE TypeOK
  OBVIOUS
<1> USE DEF Init
<1>1. store \in [Tasks -> Statuses] /\ status \in [Tasks -> Statuses]
  BY DEF Statuses
<1>2. permits \in Nat
  BY BoundAssumption
<1>3. \A l \in Loops : lp[l] = "yield" <=> held[l] # None
  OBVIOUS
<1>4. \A i \in Insts : Live(i) <=> wtask[i] # None
  BY DEF Live
<1>5. QED
  BY <1>1, <1>2, <1>3, <1>4 DEF TypeOK

\* So is the state a crash or a shutdown leaves, the store being well typed.
LEMMA TypeForget ==
  ASSUME Forget, store' \in [Tasks -> Statuses], ops' \in Nat, crashes' \in Nat
  PROVE  TypeOK'
<1> USE DEF Forget
<1>1. status' \in [Tasks -> Statuses]
  BY DEF Statuses
<1>2. permits' \in Nat
  BY BoundAssumption
<1>3. \A l \in Loops : lp'[l] = "yield" <=> held'[l] # None
  OBVIOUS
<1>4. \A i \in Insts : Live(i)' <=> wtask'[i] # None
  BY DEF Live
<1>5. QED
  BY <1>1, <1>2, <1>3, <1>4 DEF TypeOK

\* Every step of a client keeps the types.
LEMMA TypeClient ==
  ASSUME TypeOK, NEW t \in Tasks, ClientStep(t)
  PROVE  TypeOK'
<1> USE TasksAssumption, ParameterAssumption DEF TypeOK, Statuses, Live, durable, queueing, workers, pressure
<1>1. CASE Create(t)
  BY <1>1 DEF Create, Enqueue, SetStatus, Put
<1>2. CASE Pause(t)
  <2>1. wcancel' \in [Insts -> BOOLEAN]
    BY <1>2 DEF Pause, CancelWorker, Handle
  <2>2. QED
    BY <1>2, <2>1 DEF Pause, Client, SetStatus
<1>3. CASE Resume(t)
  BY <1>3 DEF Resume, Client, Enqueue, SetStatus, Put
<1>4. CASE Cancel(t)
  <2>1. wcancel' \in [Insts -> BOOLEAN]
    BY <1>4 DEF Cancel, CancelWorker, Handle
  <2>2. QED
    BY <1>4, <2>1 DEF Cancel, Client, SetStatus
<1>5. CASE Retry(t)
  BY <1>5 DEF Retry, Client, Enqueue, SetStatus, Put
<1>6. QED
  BY <1>1, <1>2, <1>3, <1>4, <1>5 DEF ClientStep

\* Every iteration of a scheduler loop keeps the types.
LEMMA TypeLoop ==
  ASSUME TypeOK, NEW l \in Loops, LoopStep(l)
  PROVE  TypeOK'
<1> USE TasksAssumption, ParameterAssumption DEF TypeOK, Statuses, Live, durable, queueing, workers, pressure
<1>1. ASSUME NEW t \in Tasks, Drop(l, t) PROVE TypeOK'
  BY <1>1 DEF Drop, Take, Head
<1>2. ASSUME NEW t \in Tasks, Postpone(l, t) PROVE TypeOK'
  BY <1>2 DEF Postpone, Take, Head, SetStatus
<1>3. ASSUME NEW t \in Tasks, Throttle(l, t) PROVE TypeOK'
  BY <1>3 DEF Throttle, Take, Head
<1>4. ASSUME NEW t \in Tasks, NEW i \in Insts, Dispatch(l, t, i) PROVE TypeOK'
  BY <1>4 DEF Dispatch, Take, Head, SetStatus
<1>5. CASE Requeue(l)
  BY <1>5 DEF Requeue, Put
<1>6. CASE WakeUp(l)
  BY <1>6 DEF WakeUp
<1>7. CASE Park(l)
  BY <1>7 DEF Park
<1>8. ASSUME NEW t \in Tasks, NEW i \in Insts, NEW op \in DOMAIN Asked, Overtaken(l, t, i, op)
      PROVE  TypeOK'
  <2>1. PICK s \in {"RUNNING", "CANCELLED", "PAUSED"} : SetStatus(t, s)
    BY <1>8 DEF Overtaken, Asked
  <2>2. UNCHANGED <<crashes, attempt, fresh, lp, held, permits, up, pressure>> /\ cpu' = l /\ ops' = ops + 1
    BY <1>8 DEF Overtaken
  <2>3. /\ queued' = [queued EXCEPT ![t] = @ - 1] /\ queued[t] > 0
        /\ wpc' = [wpc EXCEPT ![i] = "pending"]
        /\ wtask' = [wtask EXCEPT ![i] = t]
        /\ wcancel' \in [Insts -> BOOLEAN]
        /\ running' = [running EXCEPT ![t] = i]
    BY <1>8 DEF Overtaken, Take, Head
  <2> QED
    BY <2>1, <2>2, <2>3 DEF SetStatus
<1>9. QED
  BY <1>1, <1>2, <1>3, <1>4, <1>5, <1>6, <1>7, <1>8 DEF LoopStep

\* Every step of a worker keeps the types.
LEMMA TypeWorker ==
  ASSUME TypeOK, NEW i \in Insts, WorkerStep(i)
  PROVE  TypeOK'
<1> USE TasksAssumption, ParameterAssumption DEF TypeOK, Statuses, Live, durable, queueing, workers, pressure, Step
<1>1. CASE Acquire(i)
  BY <1>1 DEF Acquire
<1>2. CASE CancelledPending(i)
  BY <1>2 DEF CancelledPending
<1>3. CASE Succeed(i)
  BY <1>3 DEF Succeed, Woken, DropHandle, Release
<1>4. CASE FailRetry(i)
  BY <1>4 DEF FailRetry, SetStatus
<1>5. CASE FailFinal(i)
  BY <1>5 DEF FailFinal, SetStatus, DropHandle, Release
<1>6. CASE EndBackoff(i)
  BY <1>6 DEF EndBackoff, Put, DropHandle, Release
<1>7. CASE Interrupted(i)
  BY <1>7 DEF Interrupted, DropHandle, Release
<1>8. QED
  BY <1>1, <1>2, <1>3, <1>4, <1>5, <1>6, <1>7 DEF WorkerStep

\* Starting, dying and the environment keep the types.
LEMMA TypeProcess ==
  ASSUME TypeOK,
         \/ Boot \/ Crash \/ Shutdown
         \/ \E t \in Tasks : CrashInCreate(t)
         \/ \E i \in Insts : CrashInSucceed(i)
         \/ SetBackgroundPaused \/ LoadChanges
  PROVE  TypeOK'
<1>1. CASE Boot
  BY <1>1, TasksAssumption, ParameterAssumption
     DEF Boot, Unfinished, Resumable, TypeOK, Statuses, Terminal, Live, workers, pressure
<1>2. CASE Crash
  BY <1>2, TypeForget DEF Crash, TypeOK
<1>3. CASE Shutdown
  BY <1>3, TypeForget DEF Shutdown, TypeOK
<1>4. ASSUME NEW t \in Tasks, CrashInCreate(t) PROVE TypeOK'
  BY <1>4, TypeForget DEF CrashInCreate, TypeOK, Statuses
<1>5. ASSUME NEW i \in Insts, CrashInSucceed(i) PROVE TypeOK'
  <2>1. store' \in [Tasks -> Statuses]
    BY <1>5 DEF CrashInSucceed, TypeOK, Statuses
  <2>2. ops' \in Nat /\ crashes' \in Nat /\ Forget
    BY <1>5 DEF CrashInSucceed, TypeOK
  <2>3. QED
    BY <2>1, <2>2, TypeForget
<1>6. CASE SetBackgroundPaused
  BY <1>6 DEF SetBackgroundPaused, TypeOK, Live, durable, queueing, workers
<1>7. CASE LoadChanges
  BY <1>7, ParameterAssumption DEF LoadChanges, TypeOK, Live, durable, queueing, workers
<1>8. QED
  BY <1>1, <1>2, <1>3, <1>4, <1>5, <1>6, <1>7

LEMMA TypeNext == TypeOK /\ [Next]_vars => TypeOK'
<1> SUFFICES ASSUME TypeOK, [Next]_vars PROVE TypeOK'
  OBVIOUS
<1>1. CASE UNCHANGED vars
  BY <1>1 DEF vars, durable, queueing, workers, pressure, TypeOK, Live
<1>2. CASE Next
  BY <1>2, TypeClient, TypeLoop, TypeWorker, TypeProcess DEF Next
<1>3. QED
  BY <1>1, <1>2

\* TypeOK holds in every reachable state of the engine.
THEOREM TypeCorrect == Spec => []TypeOK
  BY TypeInit, TypeNext, PTL DEF Spec

-----------------------------------------------------------------------------
(* Handles.                                                                *)

\* A worker's handle stands under the task the worker runs.  Inductive given
\* the types: a handle is entered with its worker, and an identity is reused
\* only after the handle that named it is gone.
LEMMA HandleInductive ==
  ASSUME TypeOK, HandleIsOwn, [Next]_vars
  PROVE  HandleIsOwn'
<1> USE TasksAssumption DEF HandleIsOwn, Handle, durable, queueing, workers, pressure
<1>1. CASE Boot
  BY <1>1 DEF Boot
<1>2. CASE Forget
  BY <1>2 DEF Forget
<1>3. ASSUME NEW t \in Tasks, ClientStep(t) PROVE HandleIsOwn'
  BY <1>3 DEF ClientStep, Create, Pause, Resume, Cancel, Retry, TypeOK
<1>4. CASE SetBackgroundPaused \/ LoadChanges \/ UNCHANGED vars
  BY <1>4 DEF SetBackgroundPaused, LoadChanges, vars
<1>5. ASSUME NEW l \in Loops, LoopStep(l) PROVE HandleIsOwn'
  <2>1. ASSUME NEW t \in Tasks, NEW i \in Insts, Dispatch(l, t, i) PROVE HandleIsOwn'
    <3>1. \A u \in Tasks : running[u] # i
      BY <2>1 DEF Dispatch, Live, TypeOK
    <3>2. QED
      BY <2>1, <3>1 DEF Dispatch, TypeOK
  <2>2. ASSUME NEW t \in Tasks, Drop(l, t) \/ Postpone(l, t) \/ Throttle(l, t) PROVE HandleIsOwn'
    BY <2>2 DEF Drop, Postpone, Throttle
  <2>3. CASE Requeue(l) \/ WakeUp(l) \/ Park(l)
    BY <2>3 DEF Requeue, WakeUp, Park
  <2>4. ASSUME NEW t \in Tasks, NEW i \in Insts, NEW op \in DOMAIN Asked, Overtaken(l, t, i, op)
        PROVE  HandleIsOwn'
    <3>1. \A u \in Tasks : running[u] # i
      BY <2>4 DEF Overtaken, Live, TypeOK
    <3>2. QED
      BY <2>4, <3>1 DEF Overtaken, TypeOK
  <2>5. QED
    BY <1>5, <2>1, <2>2, <2>3, <2>4 DEF LoopStep
<1>6. ASSUME NEW i \in Insts, WorkerStep(i) PROVE HandleIsOwn'
  <2>1. CASE Acquire(i) \/ FailRetry(i)
    BY <2>1 DEF Acquire, FailRetry
  <2>2. CASE CancelledPending(i)
    BY <2>2 DEF CancelledPending, TypeOK, Live, Step
  <2>3. CASE Succeed(i) \/ FailFinal(i) \/ EndBackoff(i) \/ Interrupted(i)
    <3>1. DropHandle(i) /\ Release(i) /\ wtask[i] \in Tasks
      BY <2>3 DEF Succeed, FailFinal, EndBackoff, Interrupted, Step, TypeOK, Live
    <3>2. QED
      BY <3>1 DEF DropHandle, Release, TypeOK
  <2>4. QED
    BY <1>6, <2>1, <2>2, <2>3 DEF WorkerStep
<1>7. QED
  BY <1>1, <1>2, <1>3, <1>4, <1>5, <1>6 DEF Next, Crash, Shutdown, CrashInCreate, CrashInSucceed

\* Pause and cancel reach the worker of the task they were asked for, never one
\* of another task, in every reachable state.
THEOREM HandlesAreOwn == Spec => []HandleIsOwn
<1>1. Init => HandleIsOwn
  BY TasksAssumption DEF Init, HandleIsOwn, Handle
<1>2. QED
  BY <1>1, HandleInductive, TypeCorrect, PTL DEF Spec

-----------------------------------------------------------------------------
(* The store and the objects in memory.                                    *)

\* What every action but those of the process keeps, task by task.
LEMMA SetStatusMatches ==
  ASSUME TypeOK, StoreMatchesMemory, NEW t \in Tasks, NEW s, SetStatus(t, s), up, up' = up
  PROVE  StoreMatchesMemory'
  BY DEF SetStatus, StoreMatchesMemory, TypeOK

\* Memory and store agree again after every step: each assignment of a status
\* is committed before the event loop can run anything else.
LEMMA StoreInductive ==
  ASSUME TypeOK, StoreMatchesMemory, [Next]_vars
  PROVE  StoreMatchesMemory'
<1> USE DEF durable, queueing, workers, pressure
<1>1. CASE Boot
  BY <1>1 DEF Boot, Unfinished, Terminal, Resumable, StoreMatchesMemory, TypeOK
<1>2. CASE Forget
  BY <1>2 DEF Forget, StoreMatchesMemory
<1>3. ASSUME NEW t \in Tasks, ClientStep(t) PROVE StoreMatchesMemory'
  <2>1. PICK s : SetStatus(t, s) /\ up /\ up' = up
    BY <1>3 DEF ClientStep, Create, Pause, Resume, Cancel, Retry, Client, Enqueue
  <2>2. QED
    BY <2>1, SetStatusMatches
<1>4. CASE SetBackgroundPaused \/ LoadChanges \/ UNCHANGED vars
  BY <1>4 DEF SetBackgroundPaused, LoadChanges, vars, StoreMatchesMemory
<1>5. ASSUME NEW l \in Loops, LoopStep(l) PROVE StoreMatchesMemory'
  <2>1. ASSUME NEW t \in Tasks, \/ Postpone(l, t) \/ \E i \in Insts : Dispatch(l, t, i)
        PROVE  StoreMatchesMemory'
    <3>1. PICK s : SetStatus(t, s) /\ up /\ up' = up
      BY <2>1 DEF Postpone, Dispatch, Take
    <3>2. QED
      BY <3>1, SetStatusMatches
  <2>2. ASSUME NEW t \in Tasks, Drop(l, t) \/ Throttle(l, t) PROVE StoreMatchesMemory'
    BY <2>2 DEF Drop, Throttle, StoreMatchesMemory
  <2>3. CASE Requeue(l) \/ WakeUp(l) \/ Park(l)
    BY <2>3 DEF Requeue, WakeUp, Park, StoreMatchesMemory
  <2>4. ASSUME NEW t \in Tasks, NEW i \in Insts, NEW op \in DOMAIN Asked, Overtaken(l, t, i, op)
        PROVE  StoreMatchesMemory'
    <3>1. PICK s : SetStatus(t, s) /\ up /\ up' = up
      BY <2>4 DEF Overtaken, Take
    <3>2. QED
      BY <3>1, SetStatusMatches
  <2>5. QED
    BY <1>5, <2>1, <2>2, <2>3, <2>4 DEF LoopStep
<1>6. ASSUME NEW i \in Insts, WorkerStep(i) PROVE StoreMatchesMemory'
  <2>0. wtask[i] \in Tasks /\ up /\ up' = up
    BY <1>6 DEF WorkerStep, Acquire, CancelledPending, Succeed, FailRetry, FailFinal,
                EndBackoff, Interrupted, Step, TypeOK, Live
  <2>1. CASE Acquire(i) \/ CancelledPending(i) \/ EndBackoff(i)
    BY <2>1 DEF Acquire, CancelledPending, EndBackoff, StoreMatchesMemory
  <2>2. CASE FailRetry(i) \/ FailFinal(i)
    <3>1. PICK s : SetStatus(wtask[i], s)
      BY <2>2 DEF FailRetry, FailFinal
    <3>2. QED
      BY <2>0, <3>1, SetStatusMatches
  <2>3. CASE Succeed(i)
    BY <2>0, <2>3 DEF Succeed, StoreMatchesMemory, TypeOK
  <2>4. CASE Interrupted(i)
    BY <2>0, <2>4 DEF Interrupted, StoreMatchesMemory, TypeOK
  <2>5. QED
    BY <1>6, <2>1, <2>2, <2>3, <2>4 DEF WorkerStep
<1>7. QED
  BY <1>1, <1>2, <1>3, <1>4, <1>5, <1>6 DEF Next, Crash, Shutdown, CrashInCreate, CrashInSucceed

\* A restart at any moment finds in the store what memory said.
THEOREM StoreAgrees == Spec => []StoreMatchesMemory
<1>1. Init => StoreMatchesMemory
  BY DEF Init, StoreMatchesMemory
<1>2. QED
  BY <1>1, StoreInductive, TypeCorrect, PTL DEF Spec

-----------------------------------------------------------------------------
(* No task is lost.                                                        *)

\* What NoLostTask asks for one task.
Kept(t) == /\ status[t] \in {"QUEUED", "WAITING"} => WillRequeue(t)
           /\ status[t] = "RUNNING" => HasWorker(t)

\* A task keeps its driver when its entries, the loops that hold one and its
\* workers are left alone.
LEMMA KeptFrame ==
  ASSUME TypeOK, NEW t \in Tasks, Kept(t), status'[t] = status[t],
         queued'[t] = queued[t] \/ (queued'[t] \in Nat /\ queued'[t] >= queued[t]),
         \A l \in Loops : held[l] = t => held'[l] = t,
         \A i \in Insts : wtask[i] = t /\ ~wcancel[i]
                         => wtask'[i] = t /\ wpc'[i] = wpc[i] /\ ~wcancel'[i]
  PROVE  Kept(t)'
<1>1. WillRequeue(t) => WillRequeue(t)'
  <2>1. queued[t] > 0 => queued'[t] > 0
    <3>1. queued[t] \in Nat
      BY DEF TypeOK
    <3>2. CASE queued'[t] = queued[t]
      BY <3>2
    <3>3. CASE queued'[t] \in Nat
      BY <3>1, <3>3
    <3>4. QED
      BY <3>2, <3>3
  <2>2. QED
    BY <2>1 DEF WillRequeue
<1>2. HasWorker(t) => HasWorker(t)'
  BY DEF HasWorker
<1>3. QED
  BY <1>1, <1>2 DEF Kept

\* A step of a client leaves every task with a driver.  Pause and cancel change
\* the status of the very task whose worker they stop (HandleIsOwn).
LEMMA KeptClient ==
  ASSUME TypeOK, HandleIsOwn, NoLostTask, NEW t \in Tasks, ClientStep(t)
  PROVE  NoLostTask'
<1> SUFFICES ASSUME NEW u \in Tasks \ BadPriority PROVE Kept(u)'
  BY DEF NoLostTask, Kept, WillRequeue, HasWorker
<1>0. Kept(u)
  BY DEF NoLostTask, Kept
<1>1. CASE Create(t) \/ Resume(t) \/ Retry(t)
  <2>1. Enqueue(t) /\ UNCHANGED <<held, wpc, wtask, wcancel>>
    BY <1>1 DEF Create, Resume, Retry, workers
  <2>2. CASE u = t
    BY <2>1, <2>2 DEF Enqueue, SetStatus, Put, Kept, WillRequeue, TypeOK
  <2>3. CASE u # t
    BY <1>0, <2>1, <2>3, KeptFrame DEF Enqueue, SetStatus, Put, TypeOK
  <2>4. QED
    BY <2>2, <2>3
<1>2. CASE Pause(t) \/ Cancel(t)
  <2>1. /\ CancelWorker(t) /\ UNCHANGED <<queued, held, wpc, wtask>>
        /\ SetStatus(t, "PAUSED") \/ SetStatus(t, "CANCELLED")
    BY <1>2 DEF Pause, Cancel, queueing
  <2>2. CASE u = t
    BY <2>1, <2>2 DEF SetStatus, Kept, TypeOK
  <2>3. CASE u # t
    <3>1. \A i \in Insts : wtask[i] = u /\ ~wcancel[i] => ~wcancel'[i]
      BY <2>1, <2>3 DEF CancelWorker, HandleIsOwn, Handle, TypeOK
    <3>2. status'[u] = status[u]
      BY <2>1, <2>3 DEF SetStatus, TypeOK
    <3>3. QED
      BY <1>0, <2>1, <3>1, <3>2, KeptFrame DEF TypeOK
  <2>4. QED
    BY <2>2, <2>3
<1>3. QED
  BY <1>1, <1>2 DEF ClientStep

\* So does an iteration of a loop: an entry it takes away is in its hand, has
\* become a worker, or was that of a cancelled task.
LEMMA KeptLoop ==
  ASSUME TypeOK, HandleIsOwn, NoLostTask, NEW l \in Loops, LoopStep(l)
  PROVE  NoLostTask'
<1> SUFFICES ASSUME NEW u \in Tasks \ BadPriority PROVE Kept(u)'
  BY DEF NoLostTask, Kept, WillRequeue, HasWorker
<1>0. Kept(u)
  BY DEF NoLostTask, Kept
<1> USE TasksAssumption DEF TypeOK
<1>1. ASSUME NEW t \in Tasks, Drop(l, t) PROVE Kept(u)'
  <2>1. CASE u = t
    BY <1>1, <2>1 DEF Drop, Kept
  <2>2. CASE u # t
    BY <1>0, <1>1, <2>2, KeptFrame DEF Drop, workers
  <2>3. QED
    BY <2>1, <2>2
<1>2. ASSUME NEW t \in Tasks, Postpone(l, t) PROVE Kept(u)'
  <2>1. CASE u = t
    BY <1>2, <2>1 DEF Postpone, SetStatus, Kept, WillRequeue
  <2>2. CASE u # t
    <3>1. held[l] = None
      BY <1>2 DEF Postpone, Take
    <3>2. QED
      BY <1>0, <1>2, <2>2, <3>1, KeptFrame DEF Postpone, SetStatus, workers
  <2>3. QED
    BY <2>1, <2>2
<1>3. ASSUME NEW t \in Tasks, Throttle(l, t) PROVE Kept(u)'
  BY <1>0, <1>3, KeptFrame DEF Throttle, workers
<1>4. ASSUME NEW t \in Tasks, NEW i \in Insts, Dispatch(l, t, i) PROVE Kept(u)'
  <2>1. CASE u = t
    BY <1>4, <2>1 DEF Dispatch, SetStatus, Kept, HasWorker
  <2>2. CASE u # t
    <3>1. wtask[i] = None
      BY <1>4 DEF Dispatch, Live
    <3>2. QED
      BY <1>0, <1>4, <2>2, <3>1, KeptFrame DEF Dispatch, SetStatus
  <2>3. QED
    BY <2>1, <2>2
<1>5. CASE Requeue(l)
  <2>1. CASE u = held[l]
    <3>1. queued'[u] > 0
      BY <1>5, <2>1 DEF Requeue, Put
    <3>2. QED
      BY <1>0, <1>5, <3>1 DEF Requeue, Kept, WillRequeue, HasWorker, workers
  <2>2. CASE u # held[l]
    <3>1. queued'[u] = queued[u]
      BY <1>5, <2>2 DEF Requeue, Put
    <3>2. QED
      BY <1>0, <1>5, <2>2, <3>1, KeptFrame DEF Requeue, workers
  <2>3. QED
    BY <2>1, <2>2
<1>6. CASE WakeUp(l) \/ Park(l)
  BY <1>0, <1>6, KeptFrame DEF WakeUp, Park, workers
<1>7. ASSUME NEW t \in Tasks, NEW i \in Insts, NEW op \in DOMAIN Asked, Overtaken(l, t, i, op)
      PROVE  Kept(u)'
  <2>1. /\ wpc' = [wpc EXCEPT ![i] = "pending"] /\ wtask' = [wtask EXCEPT ![i] = t]
        /\ wtask[i] = None /\ wcancel'[i] = FALSE
    BY <1>7 DEF Overtaken, Live
  <2>2. CASE u = t
    <3>1. status'[t] \in {"RUNNING", "CANCELLED", "PAUSED"}
      BY <1>7 DEF Overtaken, Asked, SetStatus
    <3>2. QED
      BY <2>1, <2>2, <3>1 DEF Kept, HasWorker
  <2>3. CASE u # t
    <3>1. \A j \in Insts : wtask[j] = u /\ ~wcancel[j] => ~wcancel'[j]
      BY <1>7, <2>1, <2>3 DEF Overtaken, HandleIsOwn, Handle
    <3>2. status'[u] = status[u] /\ queued'[u] = queued[u] /\ held' = held
      BY <1>7, <2>3 DEF Overtaken, SetStatus
    <3>3. QED
      BY <1>0, <2>1, <2>3, <3>1, <3>2, KeptFrame
  <2>4. QED
    BY <2>2, <2>3
<1>8. QED
  BY <1>1, <1>2, <1>3, <1>4, <1>5, <1>6, <1>7 DEF LoopStep

\* So does a step of a worker: it ends after its task got a final status or an
\* entry, or because it was cancelled.
LEMMA KeptWorker ==
  ASSUME TypeOK, NoLostTask, NEW i \in Insts, WorkerStep(i)
  PROVE  NoLostTask'
<1> SUFFICES ASSUME NEW u \in Tasks \ BadPriority PROVE Kept(u)'
  BY DEF NoLostTask, Kept, WillRequeue, HasWorker
<1>0. Kept(u)
  BY DEF NoLostTask, Kept
<1> USE TasksAssumption DEF TypeOK, Step, queueing, durable, workers
<1>1. CASE Acquire(i)
  BY <1>0, <1>1 DEF Acquire, Kept, WillRequeue, HasWorker
<1>2. CASE CancelledPending(i)
  BY <1>0, <1>2, KeptFrame DEF CancelledPending
<1>3. CASE Succeed(i)
  <2>1. CASE u = wtask[i]
    BY <1>3, <2>1 DEF Succeed, Kept
  <2>2. CASE u \in Woken(wtask[i])
    BY <1>3, <2>2 DEF Succeed, Kept, Woken, WillRequeue
  <2>3. CASE u # wtask[i] /\ u \notin Woken(wtask[i])
    <3>1. status'[u] = status[u] /\ queued'[u] = queued[u]
      BY <1>3, <2>3 DEF Succeed
    <3>2. \A j \in Insts : wtask[j] = u => wtask'[j] = u /\ wpc'[j] = wpc[j] /\ wcancel'[j] = wcancel[j]
      BY <1>3, <2>3 DEF Succeed, Release
    <3>3. held' = held
      BY <1>3 DEF Succeed
    <3>4. QED
      BY <1>0, <3>1, <3>2, <3>3, KeptFrame
  <2>4. QED
    BY <2>1, <2>2, <2>3
<1>4. CASE FailRetry(i)
  <2>1. CASE u = wtask[i]
    BY <1>4, <2>1 DEF FailRetry, SetStatus, Kept, WillRequeue
  <2>2. CASE u # wtask[i]
    BY <1>0, <1>4, <2>2, KeptFrame DEF FailRetry, SetStatus
  <2>3. QED
    BY <2>1, <2>2
<1>5. CASE FailFinal(i)
  <2>1. CASE u = wtask[i]
    BY <1>5, <2>1 DEF FailFinal, SetStatus, Kept
  <2>2. CASE u # wtask[i]
    BY <1>0, <1>5, <2>2, KeptFrame DEF FailFinal, SetStatus, Release
  <2>3. QED
    BY <2>1, <2>2
<1>6. CASE EndBackoff(i)
  <2>1. CASE u = wtask[i]
    <3>1. queued'[u] > 0
      BY <1>6, <2>1 DEF EndBackoff, Put
    <3>2. \A j \in Insts : wpc[j] # "backoff" => wpc'[j] = wpc[j] /\ wtask'[j] = wtask[j] /\ wcancel'[j] = wcancel[j]
      BY <1>6 DEF EndBackoff, Release
    <3>3. QED
      BY <1>0, <1>6, <3>1, <3>2 DEF EndBackoff, Kept, WillRequeue, HasWorker
  <2>2. CASE u # wtask[i]
    BY <1>0, <1>6, <2>2, KeptFrame DEF EndBackoff, Put, Release
  <2>3. QED
    BY <2>1, <2>2
<1>7. CASE Interrupted(i)
  BY <1>0, <1>7, KeptFrame DEF Interrupted, Release
<1>8. QED
  BY <1>1, <1>2, <1>3, <1>4, <1>5, <1>6, <1>7 DEF WorkerStep

LEMMA KeptInductive ==
  ASSUME TypeOK, HandleIsOwn, NoLostTask, [Next]_vars
  PROVE  NoLostTask'
<1>1. CASE Boot
  BY <1>1 DEF Boot, Unfinished, Terminal, Resumable, NoLostTask, WillRequeue, TypeOK
<1>2. CASE Forget
  BY <1>2 DEF Forget, NoLostTask
<1>3. CASE SetBackgroundPaused \/ LoadChanges \/ UNCHANGED vars
  BY <1>3 DEF SetBackgroundPaused, LoadChanges, vars, durable, queueing, workers,
              NoLostTask, WillRequeue, HasWorker
<1>4. QED
  BY <1>1, <1>2, <1>3, KeptClient, KeptLoop, KeptWorker
     DEF Next, Crash, Shutdown, CrashInCreate, CrashInSucceed

\* A task shown as QUEUED or WAITING will be looked at again and one shown as
\* RUNNING has a worker that was not cancelled, in every reachable state.
THEOREM NoTaskLost == Spec => []NoLostTask
<1>1. Init => NoLostTask
  BY DEF Init, NoLostTask
<1>2. QED
  BY <1>1, KeptInductive, HandlesAreOwn, TypeCorrect, PTL DEF Spec

-----------------------------------------------------------------------------
(* The worker pool.                                                        *)

\* A worker that stops holding a permit returns exactly one.
LEMMA PermitReturned ==
  ASSUME TypeOK, PermitsAccounted, NEW i \in Holding, Release(i)
  PROVE  PermitsAccounted'
<1>1. IsFiniteSet(Holding)
  BY TasksAssumption, FS_Subset DEF Holding
<1>2. Holding' = Holding \ {i}
  BY DEF Holding, Release, TypeOK
<1>3. Cardinality(Holding') = Cardinality(Holding) - 1
  BY <1>1, <1>2, FS_RemoveElement
<1>4. Cardinality(Holding) \in Nat
  BY <1>1, FS_CardinalityType
<1>5. QED
  BY <1>3, <1>4 DEF PermitsAccounted, Release, TypeOK

\* The free permits and the workers that hold one add up to the pool after every
\* step.  Inductive given the types: Insts is finite, and each action moves at
\* most one worker in or out of Holding.
LEMMA PermitsInductive ==
  ASSUME TypeOK, PermitsAccounted, [Next]_vars
  PROVE  PermitsAccounted'
<1> USE DEF durable, queueing, workers, pressure
<1>1. CASE UNCHANGED <<wpc, permits>>
  BY <1>1 DEF PermitsAccounted, Holding
<1>2. CASE Forget
  <2>1. Holding' = {}
    BY <1>2 DEF Holding, Forget
  <2>2. Cardinality(Holding') = 0
    BY <2>1, FS_EmptySet
  <2>3. QED
    BY <1>2, <2>2, BoundAssumption DEF PermitsAccounted, Forget
<1>3. ASSUME NEW l \in Loops, NEW t \in Tasks, NEW i \in Insts, Dispatch(l, t, i)
      PROVE  PermitsAccounted'
  <2>1. Holding' = Holding
    BY <1>3 DEF Holding, Dispatch, Live, TypeOK
  <2>2. QED
    BY <1>3, <2>1 DEF Dispatch, PermitsAccounted
<1>3a. ASSUME NEW l \in Loops, NEW t \in Tasks, NEW i \in Insts, NEW op \in DOMAIN Asked,
              Overtaken(l, t, i, op)
       PROVE  PermitsAccounted'
  <2>1. Holding' = Holding
    BY <1>3a DEF Holding, Overtaken, Live, TypeOK
  <2>2. QED
    BY <1>3a, <2>1 DEF Overtaken, PermitsAccounted
<1>4. ASSUME NEW i \in Insts, Acquire(i) PROVE PermitsAccounted'
  <2>1. IsFiniteSet(Holding)
    BY TasksAssumption, FS_Subset DEF Holding
  <2>2. Holding' = Holding \cup {i} /\ i \notin Holding
    BY <1>4 DEF Holding, Acquire, Step, TypeOK
  <2>3. Cardinality(Holding') = Cardinality(Holding) + 1
    BY <2>1, <2>2, FS_AddElement
  <2>4. Cardinality(Holding) \in Nat
    BY <2>1, FS_CardinalityType
  <2>5. QED
    BY <1>4, <2>3, <2>4 DEF PermitsAccounted, Acquire, TypeOK
<1>5. ASSUME NEW i \in Insts, CancelledPending(i) PROVE PermitsAccounted'
  <2>1. Holding' = Holding
    BY <1>5 DEF Holding, CancelledPending, Step, TypeOK
  <2>2. QED
    BY <1>5, <2>1 DEF CancelledPending, PermitsAccounted
<1>6. ASSUME NEW i \in Insts, FailRetry(i) PROVE PermitsAccounted'
  <2>1. Holding' = Holding
    BY <1>6 DEF Holding, FailRetry, Step, TypeOK
  <2>2. QED
    BY <1>6, <2>1 DEF FailRetry, PermitsAccounted
<1>7. ASSUME NEW i \in Insts, Succeed(i) \/ FailFinal(i) \/ EndBackoff(i) \/ Interrupted(i)
      PROVE  PermitsAccounted'
  <2>1. i \in Holding /\ Release(i)
    BY <1>7 DEF Succeed, FailFinal, EndBackoff, Interrupted, Step, Holding
  <2>2. QED
    BY <2>1, PermitReturned
<1>8. CASE Boot \/ SetBackgroundPaused \/ LoadChanges \/ UNCHANGED vars
  BY <1>1, <1>8 DEF Boot, SetBackgroundPaused, LoadChanges, vars
<1>9. ASSUME NEW t \in Tasks, ClientStep(t) PROVE PermitsAccounted'
  BY <1>1, <1>9 DEF ClientStep, Create, Pause, Resume, Cancel, Retry
<1>10. ASSUME NEW l \in Loops, LoopStep(l) PROVE PermitsAccounted'
  BY <1>1, <1>3, <1>3a, <1>10 DEF LoopStep, Drop, Postpone, Throttle, Requeue, WakeUp, Park
<1>11. ASSUME NEW i \in Insts, WorkerStep(i) PROVE PermitsAccounted'
  BY <1>4, <1>5, <1>6, <1>7, <1>11 DEF WorkerStep
<1>12. QED
  BY <1>2, <1>8, <1>9, <1>10, <1>11 DEF Next, Crash, Shutdown, CrashInCreate, CrashInSucceed

\* No permit leaks and none is returned twice, in every reachable state: bodies
\* and backoffs together never exceed the pool.
THEOREM PoolBound == Spec => []PermitsAccounted
<1>1. Init => PermitsAccounted
  <2> SUFFICES ASSUME Init PROVE PermitsAccounted
    OBVIOUS
  <2>1. Holding = {}
    BY DEF Init, Holding
  <2>2. QED
    BY <2>1, FS_EmptySet, BoundAssumption DEF Init, PermitsAccounted
<1>2. QED
  BY <1>1, PermitsInductive, TypeCorrect, PTL DEF Spec
-----------------------------------------------------------------------------
(* An engine where no task is paused: one driver per task that needs no    *)
(* other.  Its drivers are not those of the tasks that wait for it: nothing *)
(* wakes it, and no loop holds it across an await.                          *)

\* OneDriver and what it needs of one task.  A backoff that is over puts the
\* entry back, so it must find the task as it left it.
Driven(t) ==
  /\ queued[t] <= 1
  /\ \A i, j \in Insts : wtask[i] = t /\ wtask[j] = t => i = j
  /\ queued[t] = 1 => (\A i \in Insts : wtask[i] # t) /\ status[t] \in {"QUEUED", "CANCELLED"}
  /\ status[t] \in {"COMPLETED", "FAILED", "ABSENT"} =>
       queued[t] = 0 /\ \A i \in Insts : wtask[i] # t
  /\ \A i \in Insts : wtask[i] = t =>
       /\ status[t] = "CANCELLED" <=> wcancel[i]
       /\ ~wcancel[i] => running[t] = i
       /\ wpc[i] = "backoff" => status[t] \in {"QUEUED", "CANCELLED"}

\* A process that is down knows no task, and no loop holds a leaf.
Resting == /\ ~up => \A t \in Tasks : status[t] = "ABSENT"
           /\ \A l \in Loops : held[l] \notin Leaves

CareInv == Resting /\ \A t \in Leaves : Driven(t)

\* A task that a step leaves alone.
LEMMA DrivenFrame ==
  ASSUME NEW t \in Leaves, Driven(t),
         status'[t] = status[t], queued'[t] = queued[t], running'[t] = running[t],
         \A i \in Insts : wtask'[i] = t =>
           wtask[i] = t /\ wcancel'[i] = wcancel[i] /\ wpc'[i] \in {wpc[i], "body"}
  PROVE  Driven(t)'
BY DEF Driven

LEMMA CareInit == Init => CareInv
BY TasksAssumption DEF Init, CareInv, Resting, Driven, Leaves

LEMMA CareForget == ASSUME Forget PROVE CareInv'
BY TasksAssumption DEF Forget, CareInv, Resting, Driven, Leaves

LEMMA CareBoot ==
  ASSUME TypeOK, CareInv, Boot
  PROVE  CareInv'
<1> USE DEF Leaves
<1>1. Resting'
  BY DEF Boot, CareInv, Resting
<1>2. ASSUME NEW t \in Leaves PROVE Driven(t)'
  <2>1. Driven(t) /\ status[t] = "ABSENT"
    BY DEF CareInv, Resting, Boot
  <2>2. \A i \in Insts : wtask'[i] # t
    BY <2>1 DEF Driven, Boot, workers
  <2>3. /\ queued'[t] \in {0, 1}
        /\ queued'[t] = 1 => status'[t] = "QUEUED"
        /\ status'[t] \in {"COMPLETED", "FAILED", "ABSENT"} => queued'[t] = 0
    BY DEF Boot
  <2> QED
    BY <2>2, <2>3 DEF Driven
<1> QED
  BY <1>1, <1>2 DEF CareInv

\* A step that changes one task leaves the other leaves driven as they were.
LEMMA CareOne ==
  ASSUME CareInv, NEW t \in Tasks, up, up' = up,
         \A l \in Loops : held'[l] \notin Leaves,
         t \in Leaves => Driven(t)',
         \A u \in Leaves : u # t =>
           /\ status'[u] = status[u] /\ queued'[u] = queued[u] /\ running'[u] = running[u]
           /\ \A i \in Insts : wtask'[i] = u =>
                wtask[i] = u /\ wcancel'[i] = wcancel[i] /\ wpc'[i] \in {wpc[i], "body"}
  PROVE  CareInv'
<1>1. Leaves' = Leaves
  BY DEF Leaves
<1>2. ASSUME NEW u \in Leaves PROVE Driven(u)'
  BY <1>2, DrivenFrame DEF CareInv
<1> QED
  BY <1>1, <1>2 DEF CareInv, Resting

LEMMA CareClient ==
  ASSUME Careful, TypeOK, HandleIsOwn, StoreMatchesMemory, CareInv,
         NEW t \in Tasks, ClientStep(t)
  PROVE  CareInv'
<1> USE DEF Leaves
<1>1. \A l \in Loops : held[l] \notin Leaves
  BY DEF CareInv, Resting
<1>2. CASE Create(t) \/ Retry(t)
  <2>1. /\ Enqueue(t) /\ up /\ up' = up
        /\ UNCHANGED <<held, wpc, wtask, wcancel, running>>
    BY <1>2 DEF Create, Retry, Client, workers
  <2>2. status[t] \in {"ABSENT", "FAILED"}
    BY <1>2, <2>1 DEF Create, Retry, StoreMatchesMemory, Terminal
  <2>3. ASSUME t \in Leaves PROVE Driven(t)'
    <3>1. queued[t] = 0 /\ \A i \in Insts : wtask[i] # t
      BY <2>2, <2>3 DEF CareInv, Driven
    <3>2. status'[t] = "QUEUED" /\ queued'[t] \in {0, 1}
      BY <2>1, <3>1 DEF Enqueue, SetStatus, Put, TypeOK
    <3> QED
      BY <2>1, <3>1, <3>2 DEF Driven
  <2>4. \A u \in Tasks : u # t => status'[u] = status[u] /\ queued'[u] = queued[u]
    BY <2>1 DEF Enqueue, SetStatus, Put, TypeOK
  <2> QED
    BY <1>1, <2>1, <2>3, <2>4, CareOne
<1>3. CASE Cancel(t)
  <2>1. /\ up /\ up' = up /\ CancelWorker(t) /\ SetStatus(t, "CANCELLED")
        /\ running' = [running EXCEPT ![t] = None]
        /\ UNCHANGED <<queued, held, wpc, wtask>>
    BY <1>3 DEF Cancel, Client, queueing
  <2>2. status'[t] = "CANCELLED" /\ queued'[t] = queued[t]
    BY <2>1 DEF SetStatus, TypeOK
  <2>3. ASSUME t \in Leaves PROVE Driven(t)'
    <3>1. Driven(t)
      BY <2>3 DEF CareInv
    <3>2. ASSUME NEW i \in Insts, wtask[i] = t PROVE wcancel'[i]
      <4>1. CASE wcancel[i]
        BY <2>1, <4>1 DEF CancelWorker, TypeOK
      <4>2. CASE ~wcancel[i]
        <5>1. running[t] = i
          BY <3>1, <3>2, <4>2 DEF Driven
        <5> QED
          BY <2>1, <5>1 DEF CancelWorker, Handle, TypeOK
      <4> QED
        BY <4>1, <4>2
    <3> QED
      BY <2>1, <2>2, <3>1, <3>2 DEF Driven, TypeOK
  <2>4. \A u \in Tasks : u # t =>
          status'[u] = status[u] /\ queued'[u] = queued[u] /\ running'[u] = running[u]
    BY <2>1 DEF SetStatus, TypeOK
  <2>5. \A i \in Insts : wtask[i] # t => wcancel'[i] = wcancel[i]
    BY <2>1 DEF CancelWorker, Handle, HandleIsOwn, TypeOK
  <2> QED
    BY <1>1, <2>1, <2>3, <2>4, <2>5, CareOne
<1>4. ~Pause(t) /\ ~Resume(t)
  BY DEF Careful, Pause, Resume, Client
<1> QED
  BY <1>2, <1>3, <1>4 DEF ClientStep

\* Clients that call from the engine's own loop never fall into a dispatch.
LEMMA NeverOvertaken ==
  ASSUME Careful
  PROVE  \A l \in Loops, t \in Tasks, i \in Insts, op \in DOMAIN Asked : ~Overtaken(l, t, i, op)
BY DEF Careful, Overtaken

LEMMA CareLoop ==
  ASSUME Careful, TypeOK, CareInv, NEW l \in Loops, LoopStep(l)
  PROVE  CareInv'
<1> USE DEF Leaves
<1>1. \A k \in Loops : held[k] \notin Leaves
  BY DEF CareInv, Resting
<1>2. ASSUME NEW t \in Tasks, Drop(l, t) PROVE CareInv'
  <2>1. /\ status[t] = "CANCELLED" /\ queued[t] > 0 /\ up
        /\ queued' = [queued EXCEPT ![t] = @ - 1]
        /\ UNCHANGED <<status, held, wpc, wtask, wcancel, running, up>>
    BY <1>2 DEF Drop, Take, Head, workers
  <2>2. /\ queued[t] \in Nat /\ queued'[t] = queued[t] - 1
        /\ \A u \in Tasks : u # t => queued'[u] = queued[u]
    BY <2>1 DEF TypeOK
  <2>3. t \in Leaves => Driven(t)'
    BY <2>1, <2>2 DEF CareInv, Driven
  <2> QED
    BY <1>1, <2>1, <2>2, <2>3, CareOne
<1>3. ASSUME NEW t \in Tasks, NEW i \in Insts, Dispatch(l, t, i) PROVE CareInv'
  <2>1. /\ status[t] # "CANCELLED" /\ queued[t] > 0 /\ ~Live(i) /\ up
        /\ SetStatus(t, "RUNNING")
        /\ queued' = [queued EXCEPT ![t] = @ - 1]
        /\ wpc' = [wpc EXCEPT ![i] = "pending"] /\ wtask' = [wtask EXCEPT ![i] = t]
        /\ wcancel' = [wcancel EXCEPT ![i] = FALSE] /\ running' = [running EXCEPT ![t] = i]
        /\ UNCHANGED <<held, up>>
    BY <1>3 DEF Dispatch, Take, Head
  <2>2. queued[t] \in Nat /\ queued'[t] = queued[t] - 1 /\ status'[t] = "RUNNING"
    BY <2>1 DEF TypeOK, SetStatus
  <2>3. /\ running'[t] = i /\ wtask'[i] = t /\ wcancel'[i] = FALSE /\ wpc'[i] = "pending"
        /\ \A j \in Insts : j # i => wtask'[j] = wtask[j] /\ wcancel'[j] = wcancel[j] /\ wpc'[j] = wpc[j]
    BY <2>1 DEF TypeOK
  <2>4. ASSUME t \in Leaves PROVE Driven(t)'
    <3>1. queued'[t] = 0 /\ \A j \in Insts : wtask[j] # t
      BY <2>1, <2>2, <2>4 DEF CareInv, Driven
    <3> QED
      BY <2>2, <2>3, <3>1 DEF Driven
  <2>5. \A u \in Tasks : u # t =>
          queued'[u] = queued[u] /\ status'[u] = status[u] /\ running'[u] = running[u]
    BY <2>1 DEF TypeOK, SetStatus
  <2>6. \A u \in Leaves, j \in Insts : u # t /\ wtask'[j] = u =>
          wtask[j] = u /\ wcancel'[j] = wcancel[j] /\ wpc'[j] \in {wpc[j], "body"}
    BY <2>3
  <2>7. \A k \in Loops : held'[k] \notin Leaves
    BY <1>1, <2>1
  <2>8. \A u \in Leaves : u # t =>
          queued'[u] = queued[u] /\ status'[u] = status[u] /\ running'[u] = running[u]
    BY <2>5
  <2>9. up /\ up' = up
    BY <2>1
  <2> HIDE DEF Leaves
  <2> QED
    BY <2>4, <2>6, <2>7, <2>8, <2>9, CareOne
<1>4. ASSUME NEW t \in Tasks, Throttle(l, t) PROVE CareInv'
  BY <1>1, <1>4 DEF Throttle, Take, CareInv, Resting, Driven, workers
<1>5. ASSUME NEW t \in Tasks, Postpone(l, t) PROVE CareInv'
  <2>1. /\ up /\ up' = up /\ SetStatus(t, "WAITING")
        /\ queued' = [queued EXCEPT ![t] = @ - 1]
        /\ held' = [held EXCEPT ![l] = t]
        /\ UNCHANGED <<wpc, wtask, wcancel, running>>
    BY <1>5 DEF Postpone, Take, workers
  <2>2. t \notin Leaves
    BY <1>5 DEF Postpone, Blocked
  <2>3. \A k \in Loops : held'[k] \notin Leaves
    BY <1>1, <2>1, <2>2 DEF TypeOK
  <2>4. \A u \in Tasks : u # t => queued'[u] = queued[u] /\ status'[u] = status[u]
    BY <2>1 DEF TypeOK, SetStatus
  <2> QED
    BY <2>1, <2>2, <2>3, <2>4, CareOne
<1>6. CASE Requeue(l)
  <2>1. /\ up /\ up' = up /\ lp[l] = "yield" /\ queued' = Put(held[l])
        /\ held' = [held EXCEPT ![l] = None]
        /\ UNCHANGED <<status, wpc, wtask, wcancel, running>>
    BY <1>6 DEF Requeue, workers
  <2>2. held[l] \in Tasks
    BY <2>1 DEF TypeOK
  <2>3. PICK t \in Tasks : held[l] = t
    BY <2>2
  <2>4. t \notin Leaves
    BY <1>1, <2>3
  <2>5. \A k \in Loops : held'[k] \notin Leaves
    BY <1>1, <2>1, TasksAssumption DEF TypeOK
  <2>6. \A u \in Tasks : u # t => queued'[u] = queued[u]
    BY <2>1, <2>3 DEF TypeOK, Put
  <2> QED
    BY <2>1, <2>4, <2>5, <2>6, CareOne
<1>7. CASE WakeUp(l) \/ Park(l)
  BY <1>1, <1>7 DEF WakeUp, Park, CareInv, Resting, Driven, workers
<1> QED
  BY <1>2, <1>3, <1>4, <1>5, <1>6, <1>7, NeverOvertaken DEF LoopStep

\* A worker that ends leaves its task without driver, or with the entry of a
\* backoff that is over.
LEMMA CareRelease ==
  ASSUME TypeOK, CareInv, NEW i \in Insts, NEW t \in Tasks, wtask[i] = t,
         up' = up, held' = held, up,
         wtask' = [wtask EXCEPT ![i] = None],
         \A j \in Insts : j # i => wcancel'[j] = wcancel[j] /\ wpc'[j] = wpc[j],
         \A u \in Leaves : u # t => /\ status'[u] = status[u] /\ queued'[u] = queued[u]
                                   /\ running'[u] = running[u],
         t \in Leaves => queued'[t] \in {0, 1} /\ (queued'[t] = 1 => status'[t] \in {"QUEUED", "CANCELLED"})
  PROVE  CareInv'
<1>1. \A l \in Loops : held'[l] \notin Leaves
  BY DEF CareInv, Resting
<1>2. ASSUME t \in Leaves PROVE Driven(t)'
  <2>1. \A j \in Insts : wtask'[j] # t
    BY <1>2, TasksAssumption DEF CareInv, Driven, TypeOK
  <2> QED
    BY <1>2, <2>1 DEF Driven
<1>3. \A u \in Tasks, j \in Insts : wtask'[j] = u => j # i /\ wtask[j] = u
  BY TasksAssumption DEF TypeOK
<1>4. \A u \in Leaves : u \in Tasks
  BY DEF Leaves
<1> QED
  BY <1>1, <1>2, <1>3, <1>4, CareOne

LEMMA CareWorker ==
  ASSUME TypeOK, CareInv, NEW i \in Insts, NEW t \in Tasks, wtask[i] = t, WorkerStep(i)
  PROVE  CareInv'
<1>1. \A l \in Loops : held[l] \notin Leaves
  BY DEF CareInv, Resting
<1>2. up /\ up' = up /\ held' = held
  BY DEF WorkerStep, Acquire, CancelledPending, Succeed, FailRetry, FailFinal,
         EndBackoff, Interrupted, Step, TypeOK, Live, queueing
<1>3. Leaves \subseteq Tasks
  BY DEF Leaves
<1>4. ASSUME t \in Leaves PROVE queued[t] = 0
  <2>1. queued[t] \in Nat /\ queued[t] <= 1
    BY <1>4 DEF CareInv, Driven, TypeOK
  <2>2. queued[t] # 1
    BY <1>4 DEF CareInv, Driven
  <2> QED
    BY <2>1, <2>2
<1>5. CASE Acquire(i)
  <2>1. /\ UNCHANGED <<status, queued, running, wtask, wcancel, held, up>>
        /\ \A j \in Insts : wpc'[j] \in {wpc[j], "body"}
    BY <1>5 DEF Acquire, queueing, TypeOK
  <2>2. t \in Leaves => Driven(t)'
    BY <2>1, DrivenFrame DEF CareInv
  <2> QED
    BY <1>1, <1>2, <2>1, <2>2, CareOne
<1>6. CASE CancelledPending(i)
  <2>1. status' = status /\ queued' = queued
    BY <1>6 DEF CancelledPending, queueing
  <2>2. wtask' = [wtask EXCEPT ![i] = None]
    BY <1>6 DEF CancelledPending
  <2>3. \A j \in Insts : j # i => wcancel'[j] = wcancel[j] /\ wpc'[j] = wpc[j]
    BY <1>6 DEF CancelledPending, TypeOK
  <2>4. \A u \in Tasks : u # t => running'[u] = running[u]
    BY <1>6 DEF CancelledPending, TypeOK
  <2>5. \A u \in Leaves : u # t => /\ status'[u] = status[u] /\ queued'[u] = queued[u]
                                  /\ running'[u] = running[u]
    BY <1>3, <2>1, <2>4
  <2>6. t \in Leaves => queued'[t] = 0
    BY <1>4, <2>1
  <2>7. t \in Leaves => queued'[t] \in {0, 1} /\ (queued'[t] = 1 => status'[t] \in {"QUEUED", "CANCELLED"})
    BY <2>6
  <2> QED
    BY <1>2, <2>2, <2>3, <2>5, <2>7, CareRelease
<1>7. ASSUME Release(i), DropHandle(i)
      PROVE  /\ wtask' = [wtask EXCEPT ![i] = None]
             /\ \A j \in Insts : j # i => wcancel'[j] = wcancel[j] /\ wpc'[j] = wpc[j]
             /\ \A u \in Tasks : u # t => running'[u] = running[u]
  BY <1>2, <1>7 DEF Release, DropHandle, TypeOK
<1>8. CASE Succeed(i)
  <2>1. \A u \in Leaves : u \notin Woken(t)
    BY DEF Woken, Leaves
  <2>2. \A u \in Leaves : u # t => status'[u] = status[u] /\ queued'[u] = queued[u]
    BY <1>3, <1>8, <2>1 DEF Succeed
  <2>3. t \in Leaves => queued'[t] = 0
    BY <1>4, <1>8, <2>1 DEF Succeed
  <2>4. Release(i) /\ DropHandle(i)
    BY <1>8 DEF Succeed
  <2> QED
    BY <1>2, <1>3, <1>7, <2>2, <2>3, <2>4, CareRelease
<1>9. CASE FailRetry(i)
  <2>1. /\ SetStatus(t, "QUEUED") /\ ~wcancel[i]
        /\ wpc' = [wpc EXCEPT ![i] = "backoff"]
        /\ UNCHANGED <<queued, wtask, wcancel, running>>
    BY <1>9 DEF FailRetry, queueing
  <2>2. ASSUME t \in Leaves PROVE Driven(t)'
    <3>1. status'[t] = "QUEUED"
      BY <2>1 DEF SetStatus, TypeOK
    <3>2. Driven(t) /\ \A j \in Insts : wtask[j] = t => j = i
      BY <2>2 DEF CareInv, Driven
    <3> QED
      BY <1>4, <2>1, <2>2, <3>1, <3>2 DEF Driven
  <2>3. ASSUME NEW u \in Leaves, u # t
        PROVE  status'[u] = status[u] /\ \A j \in Insts : wtask[j] = u => wpc'[j] = wpc[j]
    BY <1>3, <2>1, <2>3 DEF SetStatus, TypeOK
  <2> QED
    BY <1>1, <1>2, <2>1, <2>2, <2>3, CareOne
<1>10. CASE FailFinal(i)
  <2>1. /\ Release(i) /\ DropHandle(i) /\ queued' = queued
        /\ \A u \in Tasks : u # t => status'[u] = status[u]
    BY <1>2, <1>10 DEF FailFinal, SetStatus, TypeOK, queueing
  <2> QED
    BY <1>2, <1>3, <1>4, <1>7, <2>1, CareRelease
<1>11. CASE EndBackoff(i)
  <2>1. Release(i) /\ DropHandle(i) /\ status' = status /\ queued' = Put(t)
    BY <1>11 DEF EndBackoff
  <2>2. \A u \in Tasks : u # t => queued'[u] = queued[u]
    BY <2>1 DEF Put, TypeOK
  <2>3. ASSUME t \in Leaves
        PROVE  queued'[t] \in {0, 1} /\ status'[t] \in {"QUEUED", "CANCELLED"}
    <3>1. queued'[t] \in {0, 1}
      BY <1>4, <2>1, <2>3 DEF Put, TypeOK
    <3>2. status[t] \in {"QUEUED", "CANCELLED"}
      BY <1>11, <2>3 DEF EndBackoff, Step, CareInv, Driven
    <3> QED
      BY <2>1, <3>1, <3>2
  <2> QED
    BY <1>2, <1>3, <1>7, <2>1, <2>2, <2>3, CareRelease
<1>12. CASE Interrupted(i)
  <2>1. Release(i) /\ DropHandle(i) /\ UNCHANGED <<status, queued>>
    BY <1>12 DEF Interrupted, queueing
  <2> QED
    BY <1>2, <1>3, <1>4, <1>7, <2>1, CareRelease
<1> QED
  BY <1>5, <1>6, <1>8, <1>9, <1>10, <1>11, <1>12 DEF WorkerStep

LEMMA CareNext ==
  ASSUME Careful, TypeOK, HandleIsOwn, StoreMatchesMemory, CareInv, [Next]_vars
  PROVE  CareInv'
<1>1. CASE SetBackgroundPaused \/ LoadChanges \/ UNCHANGED vars
  BY <1>1 DEF SetBackgroundPaused, LoadChanges, vars, queueing, workers, CareInv, Resting, Driven, Leaves
<1>3. ASSUME NEW i \in Insts, WorkerStep(i) PROVE CareInv'
  <2>1. wtask[i] \in Tasks
    BY <1>3 DEF WorkerStep, Acquire, CancelledPending, Succeed, FailRetry, FailFinal,
                EndBackoff, Interrupted, Step, TypeOK, Live
  <2> QED
    BY <1>3, <2>1, CareWorker
<1>2. CASE Crash \/ Shutdown \/ (\E t \in Tasks : CrashInCreate(t)) \/ (\E i \in Insts : CrashInSucceed(i))
  BY <1>2, CareForget DEF Crash, Shutdown, CrashInCreate, CrashInSucceed
<1> QED
  BY <1>1, <1>2, <1>3, CareBoot, CareClient, CareLoop DEF Next

LEMMA CareHolds == ASSUME Careful PROVE Spec => []CareInv
BY CareInit, CareNext, TypeCorrect, HandlesAreOwn, StoreAgrees, PTL DEF Spec

\* Used with care, the engine gives a task one driver at most: _enqueue, dispatch,
\* retry and backoff never leave it with two entries, two workers, or both.
THEOREM SoleDriver == ASSUME Disciplined PROVE Spec => []OneDriver
<1>1. CareInv /\ TypeOK => OneDriver
  BY DEF Disciplined, CareInv, Driven, OneDriver, WorkersOf
<1>2. Careful
  BY DEF Disciplined
<1> QED
  BY <1>1, <1>2, CareHolds, TypeCorrect, PTL

\* Used with care, cancel and stop find every worker in the _running map.
THEOREM WorkersReached == ASSUME Disciplined PROVE Spec => []HandleReachesWorker
<1>1. CareInv /\ TypeOK => HandleReachesWorker
  BY DEF Disciplined, CareInv, Driven, HandleReachesWorker, TypeOK
<1>2. Careful
  BY DEF Disciplined
<1> QED
  BY <1>1, <1>2, CareHolds, TypeCorrect, PTL

-----------------------------------------------------------------------------
(* Dependencies.  What a task needs is a leaf, and a leaf that ended stays  *)
(* so: its one driver is gone.  So it is enough that a worker is created    *)
(* only when everything its task needs has ended.                           *)

\* a dependency this process does not know is taken to have ended
Done(d) == status[d] \in {"ABSENT", "COMPLETED", "CANCELLED"}

\* t has an entry, or a loop or a worker that holds it
Entered(t) == \/ queued[t] > 0
              \/ \E l \in Loops : held[l] = t
              \/ \E i \in Insts : wtask[i] = t

Closed == \A t \in Tasks : store[t] # "ABSENT" => DepsStored(t)
Known == \A t \in Tasks : Entered(t) => status[t] # "ABSENT"
Awaited == \A i \in Insts : Live(i) => \A d \in Deps[wtask[i]] : Done(d)
\* until the first crash or shutdown nothing is forgotten
Remembered == crashes = 0 => \A t \in Tasks : status[t] = store[t]

LEMMA KnownForget == ASSUME Forget PROVE Known' /\ Awaited'
BY TasksAssumption DEF Forget, Known, Entered, Awaited, Live

\* What is entered is known, through every step.
LEMMA KnownNext ==
  ASSUME Careful, TypeOK, CareInv, Known, [Next]_vars
  PROVE  Known'
<1> USE DEF Known, Entered
<1>1. CASE Boot
  <2>1. \A t \in Tasks : ~Entered(t)
    BY <1>1 DEF Boot, CareInv, Resting
  <2> QED
    BY <1>1, <2>1 DEF Boot, workers
<1>2. CASE Crash \/ Shutdown \/ (\E t \in Tasks : CrashInCreate(t)) \/ (\E i \in Insts : CrashInSucceed(i))
  BY <1>2, KnownForget DEF Crash, Shutdown, CrashInCreate, CrashInSucceed
<1>3. CASE SetBackgroundPaused \/ LoadChanges \/ UNCHANGED vars
  BY <1>3 DEF SetBackgroundPaused, LoadChanges, vars, queueing, workers
<1>4. ASSUME NEW t \in Tasks, ClientStep(t) PROVE Known'
  <2>1. CASE Create(t) \/ Resume(t) \/ Retry(t)
    BY <2>1 DEF Create, Resume, Retry, Enqueue, SetStatus, Put, workers, TypeOK
  <2>2. CASE Pause(t) \/ Cancel(t)
    BY <2>2 DEF Pause, Cancel, SetStatus, queueing, TypeOK
  <2> QED
    BY <1>4, <2>1, <2>2 DEF ClientStep
<1>5. ASSUME NEW l \in Loops, LoopStep(l) PROVE Known'
  <2>1. ASSUME NEW t \in Tasks, Drop(l, t) \/ Throttle(l, t) PROVE Known'
    BY <2>1 DEF Drop, Throttle, Take, Head, workers, TypeOK
  <2>2. ASSUME NEW t \in Tasks, Postpone(l, t) PROVE Known'
    BY <2>2 DEF Postpone, SetStatus, workers, TypeOK
  <2>3. ASSUME NEW t \in Tasks, NEW i \in Insts, Dispatch(l, t, i) PROVE Known'
    BY <2>3 DEF Dispatch, SetStatus, TypeOK
  <2>4. CASE Requeue(l)
    BY <2>4, TasksAssumption DEF Requeue, Put, workers, TypeOK
  <2>5. CASE WakeUp(l) \/ Park(l)
    BY <2>5 DEF WakeUp, Park, workers
  <2> QED
    BY <1>5, <2>1, <2>2, <2>3, <2>4, <2>5, NeverOvertaken DEF LoopStep
<1>6. ASSUME NEW i \in Insts, WorkerStep(i) PROVE Known'
  <2>1. CASE Acquire(i)
    BY <2>1 DEF Acquire, queueing
  <2>2. CASE CancelledPending(i) \/ Interrupted(i)
    BY <2>2, TasksAssumption DEF CancelledPending, Interrupted, Release, queueing, TypeOK
  <2>3. CASE Succeed(i)
    BY <2>3, TasksAssumption DEF Succeed, Woken, Release, TypeOK
  <2>4. CASE FailRetry(i) \/ FailFinal(i)
    BY <2>4, TasksAssumption DEF FailRetry, FailFinal, SetStatus, Release, queueing, TypeOK
  <2>5. CASE EndBackoff(i)
    <3>1. wtask[i] \in Tasks /\ status' = status /\ held' = held
      BY <2>5 DEF EndBackoff, Step, TypeOK, Live
    <3>2. \A u \in Tasks : queued'[u] > 0 => queued[u] > 0 \/ u = wtask[i]
      BY <2>5, <3>1 DEF EndBackoff, Put, TypeOK
    <3>3. \A u \in Tasks, j \in Insts : wtask'[j] = u => wtask[j] = u
      BY <2>5, TasksAssumption DEF EndBackoff, Release, TypeOK
    <3> QED
      BY <3>1, <3>2, <3>3
  <2> QED
    BY <1>6, <2>1, <2>2, <2>3, <2>4, <2>5 DEF WorkerStep
<1> QED
  BY <1>1, <1>2, <1>3, <1>4, <1>5, <1>6 DEF Next

\* Rows are never deleted, and a new one finds those it depends on.
LEMMA StoreGrows ==
  ASSUME Careful, TypeOK, Known, [Next]_vars, NEW t \in Tasks
  PROVE  /\ store[t] # "ABSENT" => store'[t] # "ABSENT"
         /\ store[t] = "ABSENT" /\ store'[t] # "ABSENT" => DepsStored(t) \/ status[t] # "ABSENT"
<1>1. CASE Boot \/ Crash \/ Shutdown
  BY <1>1 DEF Boot, Crash, Shutdown, Resumable
<1>2. ASSUME NEW u \in Tasks, CrashInCreate(u) \/ ClientStep(u)
      PROVE  /\ \A v \in Tasks : v # u => store'[v] = store[v]
             /\ store'[u] # "ABSENT"
             /\ DepsStored(u) \/ status[u] # "ABSENT"
  BY <1>2 DEF CrashInCreate, ClientStep, Create, Pause, Resume, Cancel, Retry, Client, Enqueue,
              SetStatus, TypeOK
<1>3. CASE SetBackgroundPaused \/ LoadChanges \/ UNCHANGED vars
  BY <1>3 DEF SetBackgroundPaused, LoadChanges, vars, durable
<1>4. ASSUME NEW l \in Loops, LoopStep(l)
      PROVE  store'[t] = store[t] \/ (store'[t] # "ABSENT" /\ status[t] # "ABSENT")
  BY <1>4, NeverOvertaken DEF LoopStep, Drop, Postpone, Throttle, Dispatch, Take, Head, Requeue, WakeUp, Park,
              SetStatus, durable, TypeOK, Known, Entered
<1>5. ASSUME NEW i \in Insts, WorkerStep(i) \/ CrashInSucceed(i)
      PROVE  store'[t] = store[t] \/ (store'[t] # "ABSENT" /\ status[t] # "ABSENT")
  <2>1. wtask[i] \in Tasks => status[wtask[i]] # "ABSENT"
    BY DEF Known, Entered
  <2>2. wtask[i] \in Tasks
    BY <1>5 DEF WorkerStep, Acquire, CancelledPending, Succeed, FailRetry, FailFinal,
                EndBackoff, Interrupted, CrashInSucceed, Step, TypeOK, Live
  <2>3. CASE Succeed(i)
    BY <2>1, <2>2, <2>3 DEF Succeed, Woken, TypeOK
  <2>4. CASE Acquire(i) \/ CancelledPending(i) \/ EndBackoff(i)
    BY <2>4 DEF Acquire, CancelledPending, EndBackoff, durable
  <2>5. CASE FailRetry(i) \/ FailFinal(i) \/ Interrupted(i) \/ CrashInSucceed(i)
    BY <2>1, <2>2, <2>5 DEF FailRetry, FailFinal, Interrupted, CrashInSucceed, SetStatus, TypeOK
  <2> QED
    BY <1>5, <2>3, <2>4, <2>5 DEF WorkerStep
<1> QED
  BY <1>1, <1>2, <1>3, <1>4, <1>5 DEF Next

\* So the rows are closed under dependencies.
LEMMA ClosedNext ==
  ASSUME Careful, TypeOK, StoreMatchesMemory, CareInv, Known, Closed, [Next]_vars
  PROVE  Closed'
<1> SUFFICES ASSUME NEW t \in Tasks, store'[t] # "ABSENT" PROVE DepsStored(t)'
  BY DEF Closed
<1>1. status[t] # "ABSENT" => store[t] # "ABSENT"
  BY DEF StoreMatchesMemory, CareInv, Resting
<1>2. DepsStored(t)
  BY <1>1, StoreGrows DEF Closed
<1> QED
  BY <1>2, StoreGrows, ParameterAssumption DEF DepsStored

\* While the process lives, a stored task that needs no other and has ended, or that
\* this process does not know, stays so: nothing queues, wakes or dispatches it.
LEMMA DoneStays ==
  ASSUME Careful, TypeOK, StoreMatchesMemory, CareInv, Known, [Next]_vars, up, up',
         NEW d \in Leaves, store[d] # "ABSENT", Done(d)
  PROVE  Done(d)'
<1> USE DEF Done
<1>1. d \in Tasks /\ Driven(d) /\ Leaves \subseteq Tasks
  BY DEF CareInv, Leaves
<1>2. ~Boot /\ ~Crash /\ ~Shutdown
  BY DEF Boot, Crash, Shutdown, Forget
<1>3. ASSUME NEW t \in Tasks, ClientStep(t) PROVE Done(d)'
  <2>1. ~Pause(t) /\ ~Resume(t)
    BY DEF Careful, Pause, Resume, Client
  <2>2. CASE Create(t) \/ Retry(t)
    BY <1>1, <2>2 DEF Create, Retry, Enqueue, SetStatus, TypeOK
  <2>3. CASE Cancel(t)
    BY <1>1, <2>3 DEF Cancel, SetStatus, TypeOK
  <2> QED
    BY <1>3, <2>1, <2>2, <2>3 DEF ClientStep
<1>4. ASSUME NEW l \in Loops, LoopStep(l) PROVE Done(d)'
  <2>1. ASSUME NEW t \in Tasks, status[t] # "CANCELLED", Head(t) PROVE t # d
    BY <1>1, <2>1 DEF Head, Driven, Known, Entered
  <2>2. ASSUME NEW t \in Tasks, Postpone(l, t) PROVE Done(d)'
    BY <1>1, <2>1, <2>2 DEF Postpone, Take, SetStatus, TypeOK
  <2>3. ASSUME NEW t \in Tasks, NEW i \in Insts, Dispatch(l, t, i) PROVE Done(d)'
    BY <1>1, <2>1, <2>3 DEF Dispatch, Take, SetStatus, TypeOK
  <2>4. ASSUME NEW t \in Tasks, Drop(l, t) \/ Throttle(l, t) PROVE Done(d)'
    BY <2>4 DEF Drop, Throttle
  <2>5. CASE Requeue(l) \/ WakeUp(l) \/ Park(l)
    BY <2>5 DEF Requeue, WakeUp, Park
  <2> QED
    BY <1>4, <2>2, <2>3, <2>4, <2>5, NeverOvertaken DEF LoopStep
<1>5. ASSUME NEW i \in Insts, WorkerStep(i) PROVE Done(d)'
  <2>1. wtask[i] = d => wcancel[i]
    BY <1>1 DEF Driven
  <2>2. wtask[i] \in Tasks
    BY <1>5 DEF WorkerStep, Acquire, CancelledPending, Succeed, FailRetry, FailFinal,
                EndBackoff, Interrupted, Step, TypeOK, Live
  <2>3. CASE Succeed(i)
    BY <1>1, <2>2, <2>3 DEF Succeed, Woken, Leaves, TypeOK
  <2>4. CASE FailRetry(i) \/ FailFinal(i)
    BY <1>1, <2>1, <2>2, <2>4 DEF FailRetry, FailFinal, SetStatus, TypeOK
  <2>5. CASE Acquire(i) \/ CancelledPending(i) \/ EndBackoff(i) \/ Interrupted(i)
    BY <2>5 DEF Acquire, CancelledPending, EndBackoff, Interrupted
  <2> QED
    BY <1>5, <2>3, <2>4, <2>5 DEF WorkerStep
<1>6. CASE SetBackgroundPaused \/ LoadChanges \/ UNCHANGED vars
  BY <1>6 DEF SetBackgroundPaused, LoadChanges, vars
<1>7. (\A t \in Tasks : ~CrashInCreate(t)) /\ \A i \in Insts : ~CrashInSucceed(i)
  BY DEF CrashInCreate, CrashInSucceed, Forget
<1> QED
  BY <1>2, <1>3, <1>4, <1>5, <1>6, <1>7 DEF Next

\* A live worker of after the step was there before it, with the same task, or the
\* step has just created it for a task that is not blocked.
LEMMA WorkerOrigin ==
  ASSUME Careful, TypeOK, [Next]_vars, up, up', NEW i \in Insts, Live(i)'
  PROVE  \/ Live(i) /\ wtask'[i] = wtask[i]
         \/ \E l \in Loops, t \in Tasks : Dispatch(l, t, i) /\ wtask'[i] = t
<1> USE DEF Live
<1>1. ~Boot /\ ~Crash /\ ~Shutdown
  BY DEF Boot, Crash, Shutdown, Forget
<1>2. (\A t \in Tasks : ~CrashInCreate(t)) /\ \A j \in Insts : ~CrashInSucceed(j)
  BY DEF CrashInCreate, CrashInSucceed, Forget
<1>3. ASSUME NEW t \in Tasks, ClientStep(t) PROVE UNCHANGED <<wpc, wtask>>
  BY <1>3 DEF ClientStep, Create, Pause, Resume, Cancel, Retry, workers
<1>4. ASSUME NEW l \in Loops, NEW t \in Tasks, Drop(l, t) \/ Postpone(l, t) \/ Throttle(l, t)
      PROVE  UNCHANGED <<wpc, wtask>>
  BY <1>4 DEF Drop, Postpone, Throttle, workers
<1>5. ASSUME NEW l \in Loops, Requeue(l) \/ WakeUp(l) \/ Park(l) PROVE UNCHANGED <<wpc, wtask>>
  BY <1>5 DEF Requeue, WakeUp, Park, workers
<1>6. ASSUME NEW l \in Loops, NEW t \in Tasks, NEW j \in Insts, Dispatch(l, t, j)
      PROVE  IF j = i THEN wtask'[i] = t ELSE wpc'[i] = wpc[i] /\ wtask'[i] = wtask[i]
  BY <1>6 DEF Dispatch, TypeOK
<1>7. ASSUME NEW j \in Insts, WorkerStep(j) PROVE Live(i) /\ wtask'[i] = wtask[i]
  <2>1. CASE Acquire(j) \/ FailRetry(j)
    BY <2>1 DEF Acquire, FailRetry, Step, TypeOK
  <2>2. CASE CancelledPending(j)
    BY <2>2 DEF CancelledPending, TypeOK
  <2>3. CASE Succeed(j) \/ FailFinal(j) \/ EndBackoff(j) \/ Interrupted(j)
    BY <2>3 DEF Succeed, FailFinal, EndBackoff, Interrupted, Release, TypeOK
  <2> QED
    BY <1>7, <2>1, <2>2, <2>3 DEF WorkerStep
<1>8. CASE SetBackgroundPaused \/ LoadChanges \/ UNCHANGED vars
  BY <1>8 DEF SetBackgroundPaused, LoadChanges, vars, workers
<1>9. ASSUME NEW l \in Loops, LoopStep(l), ~(Live(i) /\ wtask'[i] = wtask[i])
      PROVE  \E t \in Tasks : Dispatch(l, t, i) /\ wtask'[i] = t
  BY <1>4, <1>5, <1>6, <1>9, NeverOvertaken DEF LoopStep
<1> HIDE DEF Live
<1>10. UNCHANGED <<wpc, wtask>> => Live(i) /\ wtask'[i] = wtask[i]
  BY DEF Live
<1> QED
  BY <1>1, <1>2, <1>3, <1>7, <1>8, <1>9, <1>10 DEF Next

\* A worker's task waits for nothing that could still run.
LEMMA AwaitedNext ==
  ASSUME Careful, Shallow, TypeOK, TypeOK', StoreMatchesMemory, CareInv, CareInv', Known, Known',
         Closed, Awaited, [Next]_vars
  PROVE  Awaited'
<1> SUFFICES ASSUME NEW i \in Insts, Live(i)', NEW d \in Deps[wtask'[i]] PROVE Done(d)'
  BY DEF Awaited
<1>1. wtask'[i] \in Tasks /\ status'[wtask'[i]] # "ABSENT"
  BY DEF TypeOK, Live, Known, Entered
<1>2. up'
  BY <1>1 DEF CareInv, Resting
<1>3. d \in Leaves /\ d \in Tasks
  BY <1>1 DEF Shallow, Leaves
<1>4. CASE ~up
  <2>1. Boot \/ UNCHANGED vars
    <3>1. ~Crash /\ ~Shutdown /\ ~SetBackgroundPaused
      BY <1>4 DEF Crash, Shutdown, SetBackgroundPaused
    <3>2. \A t \in Tasks : ~CrashInCreate(t) /\ ~ClientStep(t)
      BY <1>4 DEF CrashInCreate, ClientStep, Create, Pause, Resume, Cancel, Retry, Client
    <3>3. \A l \in Loops : ~LoopStep(l)
      BY <1>4, NeverOvertaken DEF LoopStep, Drop, Postpone, Throttle, Dispatch, Take, Requeue, WakeUp, Park
    <3>4. \A j \in Insts : ~CrashInSucceed(j) /\ ~WorkerStep(j)
      BY <1>4 DEF CrashInSucceed, WorkerStep, Acquire, CancelledPending, Succeed, FailRetry,
         FailFinal, EndBackoff, Interrupted, Step
    <3>5. ~LoadChanges
      BY <1>4 DEF LoadChanges
    <3> QED
      BY <3>1, <3>2, <3>3, <3>4, <3>5 DEF Next
  <2>2. wtask[i] = wtask'[i]
    BY <2>1 DEF Boot, vars, workers
  <2>3. status[wtask[i]] = "ABSENT"
    BY <1>1, <1>4, <2>2 DEF CareInv, Resting
  <2> QED
    BY <1>1, <2>2, <2>3 DEF Known, Entered
<1>5. CASE up
  <2>1. CASE Live(i) /\ wtask'[i] = wtask[i]
    <3>1. status[wtask[i]] # "ABSENT" /\ Done(d)
      BY <1>1, <2>1 DEF Known, Entered, Awaited
    <3>2. store[d] # "ABSENT"
      BY <1>1, <1>5, <2>1, <3>1 DEF StoreMatchesMemory, Closed, DepsStored
    <3> QED
      BY <1>2, <1>3, <1>5, <3>1, <3>2, DoneStays
  <2>2. ASSUME NEW l \in Loops, NEW t \in Tasks, Dispatch(l, t, i), wtask'[i] = t PROVE Done(d)'
    <3>1. Done(d)
      BY <2>2 DEF Dispatch, Blocked, Done
    <3>2. status'[d] = status[d]
      BY <1>3, <2>2 DEF Dispatch, SetStatus, TypeOK, Leaves
    <3> QED
      BY <3>1, <3>2 DEF Done
  <2> QED
    BY <1>2, <1>5, <2>1, <2>2, WorkerOrigin
<1> QED
  BY <1>4, <1>5

LEMMA RememberedNext ==
  ASSUME Careful, TypeOK, CareInv, Remembered, [Next]_vars
  PROVE  Remembered'
<1> USE DEF Remembered
<1>1. CASE Boot
  BY <1>1 DEF Boot, CareInv, Resting, Unfinished, Resumable, Terminal
<1>2. CASE Crash \/ Shutdown \/ (\E t \in Tasks : CrashInCreate(t)) \/ (\E i \in Insts : CrashInSucceed(i))
  BY <1>2 DEF Crash, Shutdown, CrashInCreate, CrashInSucceed, TypeOK
<1>3. CASE SetBackgroundPaused \/ LoadChanges \/ UNCHANGED vars
  BY <1>3 DEF SetBackgroundPaused, LoadChanges, vars, durable
<1>4. ASSUME NEW t \in Tasks, ClientStep(t) PROVE Remembered'
  BY <1>4 DEF ClientStep, Create, Pause, Resume, Cancel, Retry, Client, Enqueue, SetStatus, TypeOK
<1>5. ASSUME NEW l \in Loops, LoopStep(l) PROVE Remembered'
  BY <1>5, NeverOvertaken DEF LoopStep, Drop, Postpone, Throttle, Dispatch, Requeue, WakeUp, Park, SetStatus,
              durable, TypeOK
<1>6. ASSUME NEW i \in Insts, WorkerStep(i) PROVE Remembered'
  <2>1. CASE Succeed(i)
    BY <2>1 DEF Succeed
  <2>2. CASE FailRetry(i) \/ FailFinal(i)
    BY <2>2 DEF FailRetry, FailFinal, SetStatus, TypeOK
  <2>3. CASE Acquire(i) \/ CancelledPending(i) \/ EndBackoff(i) \/ Interrupted(i)
    BY <2>3 DEF Acquire, CancelledPending, EndBackoff, Interrupted, durable, TypeOK
  <2> QED
    BY <1>6, <2>1, <2>2, <2>3 DEF WorkerStep
<1> QED
  BY <1>1, <1>2, <1>3, <1>4, <1>5, <1>6 DEF Next

LEMMA OrderInit == Init => Known /\ Closed /\ Awaited /\ Remembered
BY TasksAssumption DEF Init, Known, Entered, Closed, Awaited, Live, Remembered

LEMMA OrderHolds ==
  ASSUME Careful, Shallow
  PROVE  Spec => [](Known /\ Closed /\ Awaited /\ Remembered)
<1>1. ASSUME TypeOK, TypeOK', StoreMatchesMemory, CareInv, CareInv', [Next]_vars,
             Known /\ Closed /\ Awaited /\ Remembered
      PROVE  (Known /\ Closed /\ Awaited /\ Remembered)'
  BY <1>1, KnownNext, ClosedNext, AwaitedNext, RememberedNext
<1> QED
  BY <1>1, OrderInit, CareHolds, TypeCorrect, StoreAgrees, PTL DEF Spec

\* Where no task is paused and dependencies are of depth one, no body executes
\* before the bodies it depends on have ended, whatever is cancelled, fails and is
\* retried meanwhile, until the process has died once.
THEOREM DependenciesFirst ==
  ASSUME Careful, Shallow
  PROVE  Spec => [](crashes = 0 => DependencyFirst)
<1>1. ASSUME TypeOK, StoreMatchesMemory, CareInv, Known, Closed, Awaited, Remembered, crashes = 0
      PROVE  DependencyFirst
  <2> SUFFICES ASSUME NEW i \in Insts, wpc[i] = "body", NEW d \in Deps[wtask[i]]
               PROVE  status[d] \in {"COMPLETED", "CANCELLED"}
    BY DEF DependencyFirst
  <2>1. wtask[i] \in Tasks /\ d \in Tasks /\ Done(d)
    BY <1>1, ParameterAssumption DEF TypeOK, Live, Awaited
  <2>2. status[wtask[i]] # "ABSENT"
    BY <1>1, <2>1 DEF Known, Entered
  <2>3. store[d] # "ABSENT"
    BY <1>1, <2>1, <2>2 DEF Remembered, Closed, DepsStored
  <2> QED
    BY <1>1, <2>1, <2>3 DEF Remembered, Done
<1> QED
  BY <1>1, OrderHolds, CareHolds, TypeCorrect, StoreAgrees, PTL

\* After a restart, too, no body executes while one it depends on is queued, waiting
\* or running: what this process does not know completed, failed or was cancelled in
\* an earlier one.
THEOREM DependenciesNeverOverlap ==
  ASSUME Careful, Shallow
  PROVE  Spec => [](\A i \in Insts : wpc[i] = "body" => \A d \in Deps[wtask[i]] : Done(d))
<1>1. Awaited => \A i \in Insts : wpc[i] = "body" => \A d \in Deps[wtask[i]] : Done(d)
  BY DEF Awaited, Live
<1> QED
  BY <1>1, OrderHolds, PTL

-----------------------------------------------------------------------------
(* The engine implements TaskLifecycle.                                    *)

LEMMA PhasesOf ==
  ASSUME NEW s \in Statuses
  PROVE  /\ PhaseOf(s) = "none" <=> s = "ABSENT"
         /\ PhaseOf(s) = "completed" <=> s = "COMPLETED"
         /\ PhaseOf(s) = "failed" <=> s = "FAILED"
         /\ PhaseOf(s) = "cancelled" <=> s = "CANCELLED"
         /\ PhaseOf(s) = "todo" <=> s \in Resumable \cup {"CREATED"}
BY DEF PhaseOf, Statuses, Resumable

LEMMA PhaseSame ==
  ASSUME \A t \in Tasks : PhaseOf(store'[t]) = PhaseOf(store[t])
  PROVE  Phase' = Phase
BY DEF Phase

LEMMA PhaseSet ==
  ASSUME TypeOK, NEW t \in Tasks, NEW s, store' = [store EXCEPT ![t] = s]
  PROVE  Phase' = [Phase EXCEPT ![t] = PhaseOf(s)]
BY DEF Phase, TypeOK

LEMMA ExecutingSame ==
  ASSUME \A t \in Tasks, i \in Insts : (wpc'[i] = "body" /\ wtask'[i] = t) <=> (wpc[i] = "body" /\ wtask[i] = t)
  PROVE  Executing' = Executing
BY DEF Executing

\* Dying leaves no body; so does being down.
LEMMA ExecutingNone ==
  /\ Forget => Executing' = {}
  /\ CareInv /\ Leaves = Tasks /\ ~up => Executing = {}
BY DEF Forget, Executing, CareInv, Resting, Driven

\* A worker that was not told to stop has a task that is still to be done.
LEMMA WorkerPhase ==
  ASSUME Leaves = Tasks, TypeOK, StoreMatchesMemory, CareInv, up,
         NEW i \in Insts, NEW t \in Tasks, wtask[i] = t
  PROVE  /\ store[t] = status[t]
         /\ Phase[t] = IF wcancel[i] THEN "cancelled" ELSE "todo"
<1>1. Driven(t)
  BY DEF CareInv
<1>2. status[t] \notin {"COMPLETED", "FAILED", "ABSENT"} /\ (status[t] = "CANCELLED" <=> wcancel[i])
  BY <1>1 DEF Driven
<1>3. store[t] = status[t]
  BY <1>2 DEF StoreMatchesMemory
<1>4. store[t] \in Statuses /\ Phase[t] = PhaseOf(store[t])
  BY DEF TypeOK, Phase
<1>5. store[t] # "CANCELLED" => store[t] \in Resumable \cup {"CREATED"}
  BY <1>2, <1>3, <1>4 DEF Statuses, Resumable
<1> QED
  BY <1>2, <1>3, <1>4, <1>5, PhasesOf

\* The body of a worker's task ends with the worker's position.
LEMMA ExecutingLess ==
  ASSUME Leaves = Tasks, TypeOK, CareInv, NEW i \in Insts, NEW t \in Tasks, wtask[i] = t, wpc[i] = "body",
         wpc'[i] # "body",
         \A j \in Insts : j # i => wpc'[j] = wpc[j] /\ wtask'[j] = wtask[j]
  PROVE  t \in Executing /\ Executing' = Executing \ {t}
<1>1. \A j \in Insts : wtask[j] = t => j = i
  BY DEF CareInv, Driven
<1> QED
  BY <1>1 DEF Executing

LEMMA RefineProcess ==
  ASSUME Leaves = Tasks, TypeOK, StoreMatchesMemory, CareInv,
         \/ Boot \/ Crash \/ Shutdown
         \/ \E t \in Tasks : CrashInCreate(t)
         \/ \E i \in Insts : CrashInSucceed(i)
  PROVE  Lifecycle!Next
<1>1. CASE Boot
  <2> DEFINE lost == {t \in Tasks : store[t] \in Resumable /\ t \notin EarlyFactories}
  <2>1. Executing = {} /\ Executing' = Executing
    BY <1>1, ExecutingNone, ExecutingSame DEF Boot, workers
  <2>2. \A t \in Tasks : store[t] \in Statuses /\ store'[t] \in Statuses
    BY <1>1, TypeNext DEF TypeOK, Boot, Statuses
  <2>3. \A t \in lost : Phase[t] = "todo" /\ store'[t] = "FAILED"
    BY <1>1, <2>2, PhasesOf DEF Boot, Phase
  <2>4. \A t \in Tasks \ lost : PhaseOf(store'[t]) = PhaseOf(store[t])
    <3> SUFFICES ASSUME NEW t \in Tasks \ lost PROVE PhaseOf(store'[t]) = PhaseOf(store[t])
      OBVIOUS
    <3>1. CASE store[t] \in Resumable
      <4>1. store'[t] \in Resumable
        BY <1>1, <3>1 DEF Boot, Resumable
      <4> QED
        BY <2>2, <3>1, <4>1, PhasesOf
    <3>2. CASE store[t] \notin Resumable
      BY <1>1, <3>2 DEF Boot
    <3> QED
      BY <3>1, <3>2
  <2>5. Phase' = [t \in Tasks |-> IF t \in lost THEN "failed" ELSE Phase[t]]
    BY <2>2, <2>3, <2>4, PhasesOf DEF Phase
  <2>6. lost \in SUBSET Tasks
    OBVIOUS
  <2> HIDE DEF lost
  <2>7. Lifecycle!GiveUp(lost)
    BY <2>1, <2>3, <2>5 DEF Lifecycle!GiveUp
  <2> QED
    BY <2>6, <2>7 DEF Lifecycle!Next
<1>2. CASE Crash
  <2>1. Executing' = {} /\ Phase' = Phase
    BY <1>2, ExecutingNone, PhaseSame DEF Crash
  <2> QED
    BY <2>1 DEF Lifecycle!Next, Lifecycle!Die
<1>3. CASE Shutdown
  <2>1. \A t \in Tasks : store'[t] = store[t]
    BY <1>3 DEF Shutdown, StoreMatchesMemory, Resumable
  <2>2. Executing' = {} /\ Phase' = Phase
    BY <1>3, <2>1, ExecutingNone, PhaseSame DEF Shutdown
  <2> QED
    BY <2>2 DEF Lifecycle!Next, Lifecycle!Die
<1>4. ASSUME NEW t \in Tasks, CrashInCreate(t) PROVE Lifecycle!Next
  <2>1. Executing' = {} /\ Phase' = [Phase EXCEPT ![t] = PhaseOf("CREATED")]
    BY <1>4, ExecutingNone, PhaseSet DEF CrashInCreate
  <2>2. Phase[t] = "none" /\ PhaseOf("CREATED") = "todo"
    BY <1>4 DEF CrashInCreate, Phase, PhaseOf
  <2> QED
    BY <2>1, <2>2 DEF Lifecycle!Next, Lifecycle!Die
<1>5. ASSUME NEW i \in Insts, CrashInSucceed(i) PROVE Lifecycle!Next
  <2>1. wtask[i] \in Tasks /\ wpc[i] = "body" /\ ~wcancel[i] /\ up
    BY <1>5 DEF CrashInSucceed, Step, TypeOK, Live
  <2>2. PICK t \in Tasks : wtask[i] = t
    BY <2>1
  <2>3. Executing' = {} /\ Phase' = [Phase EXCEPT ![t] = PhaseOf("COMPLETED")]
    BY <1>5, <2>2, ExecutingNone, PhaseSet DEF CrashInSucceed
  <2>4. t \in Executing /\ Phase[t] = "todo" /\ PhaseOf("COMPLETED") = "completed"
    BY <2>1, <2>2, WorkerPhase DEF Executing, PhaseOf
  <2> QED
    BY <2>3, <2>4 DEF Lifecycle!Next, Lifecycle!Die
<1> QED
  BY <1>1, <1>2, <1>3, <1>4, <1>5

LEMMA RefineClient ==
  ASSUME Careful, TypeOK, StoreMatchesMemory, NEW t \in Tasks, ClientStep(t)
  PROVE  Lifecycle!Next
<1>1. Executing' = Executing
  BY ExecutingSame DEF ClientStep, Create, Pause, Resume, Cancel, Retry, workers
<1>2. store[t] \in Statuses /\ Phase[t] = PhaseOf(store[t])
  BY DEF TypeOK, Phase
<1>3. CASE Create(t)
  <2>1. store[t] = "ABSENT" /\ store' = [store EXCEPT ![t] = "QUEUED"]
    BY <1>3 DEF Create, Enqueue, SetStatus
  <2>2. Phase' = [Phase EXCEPT ![t] = PhaseOf("QUEUED")]
    BY <2>1, PhaseSet
  <2>3. Phase[t] = "none" /\ PhaseOf("QUEUED") = "todo"
    BY <1>2, <2>1 DEF PhaseOf
  <2> QED
    BY <1>1, <2>2, <2>3 DEF Lifecycle!Next, Lifecycle!Submit
<1>4. CASE Cancel(t)
  <2>1. store[t] # "ABSENT" /\ store' = [store EXCEPT ![t] = "CANCELLED"]
    BY <1>4 DEF Cancel, Client, StoreMatchesMemory, SetStatus, Terminal
  <2>2. Phase' = [Phase EXCEPT ![t] = PhaseOf("CANCELLED")]
    BY <2>1, PhaseSet
  <2>3. Phase[t] # "none" /\ PhaseOf("CANCELLED") = "cancelled"
    BY <1>2, <2>1 DEF PhaseOf
  <2> QED
    BY <1>1, <2>2, <2>3 DEF Lifecycle!Next, Lifecycle!Cancel
<1>5. CASE Retry(t)
  <2>1. store[t] = "FAILED" /\ store' = [store EXCEPT ![t] = "QUEUED"]
    BY <1>5 DEF Retry, Client, StoreMatchesMemory, Enqueue, SetStatus
  <2>2. Phase' = [Phase EXCEPT ![t] = PhaseOf("QUEUED")]
    BY <2>1, PhaseSet
  <2>3. Phase[t] = "failed" /\ PhaseOf("QUEUED") = "todo"
    BY <1>2, <2>1 DEF PhaseOf
  <2> QED
    BY <1>1, <2>2, <2>3 DEF Lifecycle!Next, Lifecycle!Retry
<1> QED
  BY <1>3, <1>4, <1>5 DEF ClientStep, Careful, Pause, Resume, Client

LEMMA RefineLoop ==
  ASSUME Careful, Leaves = Tasks, TypeOK, StoreMatchesMemory, CareInv, NEW l \in Loops, LoopStep(l)
  PROVE  UNCHANGED <<Phase, Executing>>
<1>1. ASSUME NEW t \in Tasks, NEW i \in Insts, Dispatch(l, t, i)
      PROVE  UNCHANGED <<Phase, Executing>>
  <2>1. queued[t] > 0 /\ up /\ wpc[i] = "free" /\ wpc'[i] = "pending"
    BY <1>1 DEF Dispatch, Take, Head, Live, TypeOK
  <2>2. queued[t] \in Nat /\ queued[t] <= 1 /\ (queued[t] = 1 => status[t] \in {"QUEUED", "CANCELLED"})
    BY DEF CareInv, Driven, TypeOK
  <2>3. status[t] = "QUEUED"
    BY <1>1, <2>1, <2>2 DEF Dispatch
  <2>4. PhaseOf(store[t]) = PhaseOf("RUNNING")
    BY <2>1, <2>3 DEF StoreMatchesMemory, PhaseOf
  <2>5. \A u \in Tasks : store'[u] = IF u = t THEN "RUNNING" ELSE store[u]
    BY <1>1 DEF Dispatch, SetStatus, TypeOK
  <2>6. Phase' = Phase
    BY <2>4, <2>5, PhaseSame
  <2>7. \A j \in Insts : j # i => wpc'[j] = wpc[j] /\ wtask'[j] = wtask[j]
    BY <1>1 DEF Dispatch, TypeOK
  <2> QED
    BY <2>1, <2>6, <2>7, ExecutingSame
<1>2. ASSUME \/ \E t \in Tasks : Drop(l, t) \/ Throttle(l, t)
             \/ WakeUp(l) \/ Park(l) \/ Requeue(l)
      PROVE  UNCHANGED <<Phase, Executing>>
  <2>1. UNCHANGED <<store, wpc, wtask>>
    BY <1>2 DEF Drop, Throttle, WakeUp, Park, Requeue, durable, workers
  <2> QED
    BY <2>1, PhaseSame, ExecutingSame
<1>3. ASSUME NEW t \in Tasks PROVE ~Postpone(l, t)
  BY DEF Leaves, Postpone, Blocked
<1> QED
  BY <1>1, <1>2, <1>3, NeverOvertaken DEF LoopStep

LEMMA RefineWorker ==
  ASSUME Careful, Leaves = Tasks, TypeOK, StoreMatchesMemory, CareInv,
         NEW i \in Insts, NEW t \in Tasks, wtask[i] = t, WorkerStep(i)
  PROVE  Lifecycle!Next \/ UNCHANGED <<Phase, Executing>>
<1>0. up
  BY DEF WorkerStep, Acquire, CancelledPending, Succeed, FailRetry, FailFinal,
         EndBackoff, Interrupted, Step
<1>1. store[t] = status[t] /\ Phase[t] = IF wcancel[i] THEN "cancelled" ELSE "todo"
  BY <1>0, WorkerPhase
<1>2. CASE Acquire(i)
  <2>1. /\ wpc[i] = "pending" /\ wpc'[i] = "body" /\ ~wcancel[i]
        /\ UNCHANGED <<store, wtask>> /\ \A j \in Insts : j # i => wpc'[j] = wpc[j]
    BY <1>2 DEF Acquire, Step, durable, TypeOK
  <2>2. \A j \in Insts : wtask[j] = t => j = i
    BY DEF CareInv, Driven
  <2>3. t \notin Executing /\ Executing' = Executing \cup {t}
    BY <2>1, <2>2 DEF Executing
  <2>4. Phase' = Phase
    BY <2>1, PhaseSame
  <2> QED
    BY <1>1, <2>1, <2>3, <2>4 DEF Lifecycle!Next, Lifecycle!Start
<1>3. CASE CancelledPending(i) \/ EndBackoff(i) \/ (Interrupted(i) /\ wpc[i] = "backoff")
  <2>1. store' = store /\ wpc[i] # "body" /\ wpc'[i] = "free"
    BY <1>3 DEF CancelledPending, EndBackoff, Interrupted, Release, Step, durable, TypeOK
  <2>2. \A j \in Insts : j # i => wpc'[j] = wpc[j] /\ wtask'[j] = wtask[j]
    BY <1>3 DEF CancelledPending, EndBackoff, Interrupted, Release, TypeOK
  <2> QED
    BY <2>1, <2>2, PhaseSame, ExecutingSame
<1>4. ASSUME wpc[i] = "body", wpc'[i] # "body",
             \A j \in Insts : j # i => wpc'[j] = wpc[j] /\ wtask'[j] = wtask[j]
      PROVE  t \in Executing /\ Executing' = Executing \ {t}
  BY <1>4, ExecutingLess
<1>5. CASE Succeed(i)
  <2>1. /\ wpc[i] = "body" /\ wpc'[i] = "free" /\ ~wcancel[i]
        /\ \A j \in Insts : j # i => wpc'[j] = wpc[j] /\ wtask'[j] = wtask[j]
    BY <1>5 DEF Succeed, Step, Release, TypeOK
  <2>2. Woken(t) = {}
    BY DEF Woken, Leaves
  <2>3. store' = [store EXCEPT ![t] = "COMPLETED"]
    BY <1>5, <2>2 DEF Succeed, TypeOK
  <2>4. Phase' = [Phase EXCEPT ![t] = "completed"]
    BY <2>3, PhaseSet DEF PhaseOf
  <2> QED
    BY <1>1, <1>4, <2>1, <2>4 DEF Lifecycle!Next, Lifecycle!Finish
<1>6. CASE FailRetry(i) \/ FailFinal(i)
  <2>1. /\ wpc[i] = "body" /\ wpc'[i] # "body" /\ ~wcancel[i]
        /\ \A j \in Insts : j # i => wpc'[j] = wpc[j] /\ wtask'[j] = wtask[j]
    BY <1>6 DEF FailRetry, FailFinal, Step, Release, TypeOK
  <2>2. PICK s \in {"QUEUED", "FAILED"} : store' = [store EXCEPT ![t] = s]
    BY <1>6 DEF FailRetry, FailFinal, SetStatus
  <2>3. Phase' = [Phase EXCEPT ![t] = PhaseOf(s)] /\ PhaseOf(s) \in {"todo", "failed"}
    BY <2>2, PhaseSet DEF PhaseOf
  <2> QED
    BY <1>1, <1>4, <2>1, <2>3 DEF Lifecycle!Next, Lifecycle!Finish
<1>7. CASE Interrupted(i) /\ wpc[i] # "backoff"
  <2>1. /\ wpc[i] = "body" /\ wpc'[i] # "body" /\ wcancel[i]
        /\ \A j \in Insts : j # i => wpc'[j] = wpc[j] /\ wtask'[j] = wtask[j]
    BY <1>7 DEF Interrupted, Step, Release, TypeOK
  <2>2. store' = [store EXCEPT ![t] = status[t]]
    BY <1>7 DEF Interrupted, Step
  <2>3. Phase' = Phase
    BY <1>1, <2>2, PhaseSame DEF TypeOK
  <2> QED
    BY <1>1, <1>4, <2>1, <2>3 DEF Lifecycle!Next, Lifecycle!Stop
<1> QED
  BY <1>2, <1>3, <1>5, <1>6, <1>7 DEF WorkerStep

LEMMA RefineNext ==
  ASSUME Careful, Leaves = Tasks, TypeOK, StoreMatchesMemory, CareInv, [Next]_vars
  PROVE  [Lifecycle!Next]_<<Phase, Executing>>
<1>1. CASE SetBackgroundPaused \/ LoadChanges \/ UNCHANGED vars
  <2>1. UNCHANGED <<store, wpc, wtask>>
    BY <1>1 DEF SetBackgroundPaused, LoadChanges, vars, durable, workers
  <2> QED
    BY <2>1, PhaseSame, ExecutingSame
<1>2. ASSUME NEW i \in Insts, WorkerStep(i) PROVE [Lifecycle!Next]_<<Phase, Executing>>
  <2>1. wtask[i] \in Tasks
    BY <1>2 DEF WorkerStep, Acquire, CancelledPending, Succeed, FailRetry, FailFinal,
                EndBackoff, Interrupted, Step, TypeOK, Live
  <2> QED
    BY <1>2, <2>1, RefineWorker
<1> QED
  BY <1>1, <1>2, RefineProcess, RefineClient, RefineLoop DEF Next

\* Used with care, the engine keeps what TaskLifecycle promises: a body runs only for
\* a task still to be done and never twice at once, what is finished stays so, through
\* crashes between any two commits.
THEOREM EngineRefines == ASSUME Disciplined PROVE Spec => ImplementsLifecycle
<1>1. Init => Lifecycle!Init
  BY DEF Init, Lifecycle!Init, Phase, PhaseOf, Executing
<1>2. Careful /\ Leaves = Tasks
  BY DEF Disciplined
<1> QED
  BY <1>1, <1>2, RefineNext, CareHolds, TypeCorrect, StoreAgrees, PTL
     DEF Spec, ImplementsLifecycle, Lifecycle!Spec
=============================================================================
