----------------------------- MODULE TaskEngine -----------------------------
(***************************************************************************)
(* The background task engine of raphael/runtime/tasks.py: a TaskManager   *)
(* with its SQLite TaskStore, its priority queue, the scheduler loops that *)
(* drain the queue and the asyncio tasks (workers) that run task bodies.   *)
(*                                                                         *)
(* The engine runs on one asyncio event loop, so an action is the code     *)
(* between two awaits.  `cpu' names the scheduler loop that is running     *)
(* without having awaited yet: Queue.get() on a non-empty queue does not   *)
(* suspend, so a loop drains entries until it sleeps or finds it empty.    *)
(*                                                                         *)
(* Clients call from that loop too if the service is started by            *)
(* runtime_launcher (OneLoop).  Under `raphael server' the gateway has a   *)
(* thread of its own, and a call may fall inside a dispatch (Overtaken).   *)
(*                                                                         *)
(* The process may crash at any point, also between two commits of one     *)
(* operation; the store survives, everything else is rebuilt by Boot.      *)
(***************************************************************************)
EXTENDS Integers, FiniteSets

CONSTANTS
  Tasks,          \* task ids; each is created at most once (uuid)
  Insts,          \* identities for the concurrently live workers (a bound)
  Loops,          \* _scheduler_loop coroutines; always_alive.start runs two
  Rank,           \* _PRIORITY_RANK of each task: 0 CRITICAL .. 5 IDLE
  BadPriority,    \* tasks whose priority string is not a TaskPriority
  Deps,           \* dependencies of each task
  Factories,      \* tasks whose name gets a factory (register_factory)
  EarlyFactories, \* those registered before TaskManager.start() runs
  MaxRetries,     \* BackgroundTask.max_retries (0 also stands for not retryable)
  Pool,           \* worker pool size
  Loads,          \* the levels of resource pressure the machine goes through
  ClientOps,      \* the client operations the instance exercises
  MaxOps,         \* bound on client operations on existing tasks
  MaxCrashes,     \* bound on crashes and shutdowns
  OneLoop,        \* clients call from the loop of the engine, not from a thread
  None, Stale     \* no task/worker/loop; a handle whose worker is gone

Ranks == 0..5

ASSUME TasksAssumption ==
  /\ Tasks # {} /\ Insts # {} /\ Loops # {}
  /\ None \notin Tasks \cup Insts \cup Loops
  /\ Stale \notin Insts \cup {None}
  /\ IsFiniteSet(Insts)
ASSUME ParameterAssumption ==
  /\ Rank \in [Tasks -> Ranks]
  /\ Deps \in [Tasks -> SUBSET Tasks]
  /\ BadPriority \subseteq Tasks
  /\ Factories \subseteq Tasks /\ EarlyFactories \subseteq Factories
  /\ ClientOps \subseteq {"pause", "resume", "cancel", "retry", "background"}
  /\ Loads \subseteq {2, 4, 5, 6}
  /\ OneLoop \in BOOLEAN
ASSUME BoundAssumption ==
  /\ MaxRetries \in Nat /\ MaxOps \in Nat /\ MaxCrashes \in Nat
  /\ Pool \in Nat \ {0}

VARIABLES
  store,      \* status column of each row of the tasks table; ABSENT: no row
  status,     \* _tasks[t].status; ABSENT: not in _tasks
  attempt,    \* _tasks[t]._attempt (never persisted)
  fresh,      \* tasks that hold their coroutine: created by this process
  queued,     \* number of entries of each task in the priority queue
  lp,         \* where each scheduler loop is
  held,       \* the task a loop holds across its sleep(0)
  cpu,        \* the loop running without an await, or None
  wpc,        \* where each worker is
  wtask,      \* the task a worker runs
  wcancel,    \* cancel() was requested on the worker
  running,    \* the _running map: the worker whose handle it holds
  permits,    \* free permits of the semaphore
  up,         \* the process is running
  floor,      \* resource pressure: ranks >= floor are throttled
  bgPaused,   \* ResourceManager._background_paused
  ops, crashes

durable  == <<store, ops, crashes>>
queueing == <<queued, lp, held, cpu>>
workers  == <<wpc, wtask, wcancel, permits>>
pressure == <<floor, bgPaused>>
vars == <<durable, status, attempt, fresh, queueing, workers, running, up, pressure>>

Statuses == {"ABSENT", "CREATED", "QUEUED", "RUNNING", "PAUSED", "WAITING",
             "COMPLETED", "FAILED", "CANCELLED"}
Terminal == {"COMPLETED", "FAILED", "CANCELLED"}
Resumable == {"QUEUED", "RUNNING", "WAITING", "PAUSED"}

-----------------------------------------------------------------------------
(* Helpers shared by the operations.                                       *)

\* task.status = s followed by store.upsert(task)
SetStatus(t, s) ==
  /\ status' = [status EXCEPT ![t] = s]
  /\ store'  = [store EXCEPT ![t] = s]

\* put_nowait of an entry; an unknown priority raises ValueError instead
Put(t) == [queued EXCEPT ![t] = IF t \in BadPriority THEN @ ELSE @ + 1]

\* _enqueue: the status is set and committed before the priority is looked up
Enqueue(t) == SetStatus(t, "QUEUED") /\ queued' = Put(t)

\* mutant: one finished dependency is enough
BlockedUnlessAny(t) == Deps[t] # {} /\ \A d \in Deps[t] : status[d] \notin {"ABSENT", "COMPLETED", "CANCELLED"}

\* _check_dependencies: a dependency unknown to this process is satisfied
Blocked(t) == \E d \in Deps[t] : status[d] \notin {"ABSENT", "COMPLETED", "CANCELLED"}

\* ResourceManager.should_throttle
Throttled(t) == Rank[t] >= floor \/ (bgPaused /\ Rank[t] >= 3)

\* _resolve_coroutine, once every factory is registered
Resolvable(t) == t \in fresh \cup Factories

Live(i) == wpc[i] # "free"
Handle(t) == running[t] \in Insts

\* The entry Queue.get() returns; entries of one rank are ordered by time
\* stamps only, which any order of creation and requeuing can produce.
Head(t) == queued[t] > 0 /\ \A u \in Tasks : queued[u] > 0 => Rank[t] <= Rank[u]

\* what a process that is not running keeps in memory
Forget ==
  /\ up'      = FALSE
  /\ status'  = [t \in Tasks |-> "ABSENT"]
  /\ attempt' = [t \in Tasks |-> 0]
  /\ fresh'   = {}
  /\ queued'  = [t \in Tasks |-> 0]
  /\ lp'      = [l \in Loops |-> "get"]
  /\ held'    = [l \in Loops |-> None]
  /\ cpu'     = None
  /\ wpc'     = [i \in Insts |-> "free"]
  /\ wtask'   = [i \in Insts |-> None]
  /\ wcancel' = [i \in Insts |-> FALSE]
  /\ running' = [t \in Tasks |-> None]
  /\ permits' = Pool
  /\ floor'   = 6
  /\ bgPaused' = FALSE

Init ==
  /\ store   = [t \in Tasks |-> "ABSENT"]
  /\ ops = 0 /\ crashes = 0
  /\ up      = FALSE
  /\ status  = [t \in Tasks |-> "ABSENT"]
  /\ attempt = [t \in Tasks |-> 0]
  /\ fresh   = {}
  /\ queued  = [t \in Tasks |-> 0]
  /\ lp      = [l \in Loops |-> "get"]
  /\ held    = [l \in Loops |-> None]
  /\ cpu     = None
  /\ wpc     = [i \in Insts |-> "free"]
  /\ wtask   = [i \in Insts |-> None]
  /\ wcancel = [i \in Insts |-> FALSE]
  /\ running = [t \in Tasks |-> None]
  /\ permits = Pool
  /\ floor   = 6
  /\ bgPaused = FALSE

-----------------------------------------------------------------------------
(* Process: start, crash, graceful stop.                                   *)

\* load_unfinished
Unfinished(t) == store[t] \notin Terminal \cup {"ABSENT"}

\* start -> _resume_persisted on the rows load_unfinished returns: CREATED rows
\* are loaded and left alone, a task without a factory is FAILED, a PAUSED one
\* stays, the others are enqueued.  The remaining factories are registered
\* after that (always_alive.start), and the loops begin.
Boot ==
  LET after(t) == IF store[t] \in Resumable
                  THEN IF t \notin EarlyFactories THEN "FAILED"
                       ELSE IF store[t] = "PAUSED" THEN "PAUSED" ELSE "QUEUED"
                  ELSE store[t]
  IN /\ ~up
     /\ up' = TRUE
     /\ status' = [t \in Tasks |-> IF Unfinished(t) THEN after(t) ELSE "ABSENT"]
     /\ store'  = [t \in Tasks |-> after(t)]
     /\ queued' = [t \in Tasks |-> IF Unfinished(t) /\ after(t) = "QUEUED" /\ t \notin BadPriority
                                   THEN 1 ELSE 0]
     /\ UNCHANGED <<ops, crashes, attempt, fresh, lp, held, cpu, workers, running, pressure>>

\* The process dies; every commit made so far is in the store.
Crash ==
  /\ up /\ crashes < MaxCrashes
  /\ crashes' = crashes + 1
  /\ Forget
  /\ UNCHANGED <<store, ops>>

\* dependencies are ids that an earlier create returned
DepsStored(t) == \A d \in Deps[t] : store[d] # "ABSENT"

\* The process dies between the two upserts of create.
CrashInCreate(t) ==
  /\ up /\ cpu = None /\ crashes < MaxCrashes /\ store[t] = "ABSENT"
  /\ DepsStored(t)
  /\ store' = [store EXCEPT ![t] = "CREATED"]
  /\ crashes' = crashes + 1
  /\ Forget
  /\ UNCHANGED ops

\* stop: the loops and workers are cancelled, checkpoint_all writes every live
\* task, and the process exits.
Shutdown ==
  /\ up /\ cpu = None /\ crashes < MaxCrashes
  /\ store' = [t \in Tasks |-> IF status[t] \in Resumable THEN status[t] ELSE store[t]]
  /\ crashes' = crashes + 1
  /\ Forget
  /\ UNCHANGED ops

-----------------------------------------------------------------------------
(* Client operations: synchronous, called from handlers on the event loop. *)

Create(t) ==
  /\ up /\ cpu = None /\ store[t] = "ABSENT" /\ DepsStored(t)
  /\ fresh' = fresh \cup {t}
  /\ Enqueue(t)
  /\ UNCHANGED <<ops, crashes, attempt, lp, held, cpu, workers, running, up, pressure>>

Client(op, t) ==
  /\ up /\ cpu = None /\ status[t] # "ABSENT"
  /\ op \in ClientOps /\ ops < MaxOps
  /\ ops' = ops + 1

\* A worker that is still live gets a cancellation request; the queue entry of
\* a task that is only queued stays where it is.
CancelWorker(t) ==
  wcancel' = IF Handle(t) THEN [wcancel EXCEPT ![running[t]] = TRUE] ELSE wcancel

\* mutant: the upsert of checkpoint is taken to be enough
PauseCheckpointOnly(t) ==
  /\ Client("pause", t)
  /\ status[t] \notin Terminal
  /\ CancelWorker(t)
  /\ status' = [status EXCEPT ![t] = "PAUSED"]
  /\ UNCHANGED <<store, crashes, attempt, fresh, queueing, wpc, wtask, permits, running, up, pressure>>

Pause(t) ==
  /\ Client("pause", t)
  /\ status[t] \notin Terminal
  /\ CancelWorker(t)
  /\ SetStatus(t, "PAUSED")
  /\ UNCHANGED <<crashes, attempt, fresh, queueing, wpc, wtask, permits, running, up, pressure>>

\* mutant: the entry of before the pause is taken to be still there
ResumeKeepsEntry(t) ==
  /\ Client("resume", t)
  /\ status[t] = "PAUSED"
  /\ SetStatus(t, "QUEUED")
  /\ UNCHANGED <<crashes, attempt, fresh, queueing, workers, running, up, pressure>>

Resume(t) ==
  /\ Client("resume", t)
  /\ status[t] = "PAUSED"
  /\ Enqueue(t)
  /\ UNCHANGED <<crashes, attempt, fresh, lp, held, cpu, workers, running, up, pressure>>

\* cancel has no guard on the status: a finished task becomes CANCELLED too
Cancel(t) ==
  /\ Client("cancel", t)
  /\ CancelWorker(t)
  /\ running' = [running EXCEPT ![t] = None]
  /\ SetStatus(t, "CANCELLED")
  /\ UNCHANGED <<crashes, attempt, fresh, queueing, wpc, wtask, permits, up, pressure>>

\* mutant: retry accepts a task that has not failed
RetryAny(t) ==
  /\ Client("retry", t)
  /\ attempt' = [attempt EXCEPT ![t] = 0]
  /\ Enqueue(t)
  /\ UNCHANGED <<crashes, fresh, lp, held, cpu, workers, running, up, pressure>>

Retry(t) ==
  /\ Client("retry", t)
  /\ status[t] = "FAILED"
  /\ attempt' = [attempt EXCEPT ![t] = 0]
  /\ Enqueue(t)
  /\ UNCHANGED <<crashes, fresh, lp, held, cpu, workers, running, up, pressure>>

\* set_background_paused, called by the modes of the controller
SetBackgroundPaused ==
  /\ up /\ cpu = None /\ "background" \in ClientOps
  /\ bgPaused' = ~bgPaused
  /\ UNCHANGED <<durable, status, attempt, fresh, queueing, workers, running, up, floor>>

\* floor: 6 no pressure, 5 RAM high (IDLE throttled), 4 low battery (BACKGROUND
\* too), 2 CPU or RAM over the limit (all but CRITICAL and HIGH)
LoadChanges ==
  /\ up /\ cpu = None
  /\ floor' \in Loads \ {floor}
  /\ UNCHANGED <<durable, status, attempt, fresh, queueing, workers, running, up, bgPaused>>

-----------------------------------------------------------------------------
(* _scheduler_loop, one action per way an iteration can go.                *)

Take(l, t) ==
  /\ up /\ cpu \in {None, l}
  /\ lp[l] = "get" /\ Head(t)

\* a cancelled task's entry is dropped
Drop(l, t) ==
  /\ Take(l, t) /\ status[t] = "CANCELLED"
  /\ queued' = [queued EXCEPT ![t] = @ - 1]
  /\ cpu' = l
  /\ UNCHANGED <<durable, status, attempt, fresh, lp, held, workers, running, up, pressure>>

\* a dependency is pending: WAITING, then sleep(0) with the entry in hand
Postpone(l, t) ==
  /\ Take(l, t) /\ status[t] # "CANCELLED" /\ Blocked(t)
  /\ SetStatus(t, "WAITING")
  /\ queued' = [queued EXCEPT ![t] = @ - 1]
  /\ lp' = [lp EXCEPT ![l] = "yield"]
  /\ held' = [held EXCEPT ![l] = t]
  /\ cpu' = None
  /\ UNCHANGED <<ops, crashes, attempt, fresh, workers, running, up, pressure>>

\* mutant: waking the task is left to _wake_dependents, which cancel never calls
RequeueLeftToWakeUp(l) ==
  /\ up /\ cpu = None /\ lp[l] = "yield"
  /\ lp' = [lp EXCEPT ![l] = "get"]
  /\ held' = [held EXCEPT ![l] = None]
  /\ cpu' = l
  /\ UNCHANGED <<durable, status, attempt, fresh, queued, workers, running, up, pressure>>

\* back from sleep(0): the entry returns to the queue and the loop takes the next
Requeue(l) ==
  /\ up /\ cpu = None /\ lp[l] = "yield"
  /\ queued' = Put(held[l])
  /\ lp' = [lp EXCEPT ![l] = "get"]
  /\ held' = [held EXCEPT ![l] = None]
  /\ cpu' = l
  /\ UNCHANGED <<durable, status, attempt, fresh, workers, running, up, pressure>>

\* mutant: the throttled entry is not put back
ThrottleDrops(l, t) ==
  /\ Take(l, t) /\ status[t] # "CANCELLED" /\ ~Blocked(t) /\ Throttled(t)
  /\ queued' = [queued EXCEPT ![t] = @ - 1]
  /\ lp' = [lp EXCEPT ![l] = "nap"]
  /\ cpu' = None
  /\ UNCHANGED <<durable, status, attempt, fresh, held, workers, running, up, pressure>>

\* throttled: the entry goes back first, then the loop sleeps a second
Throttle(l, t) ==
  /\ Take(l, t) /\ status[t] # "CANCELLED" /\ ~Blocked(t) /\ Throttled(t)
  /\ lp' = [lp EXCEPT ![l] = "nap"]
  /\ cpu' = None
  /\ UNCHANGED <<durable, status, attempt, fresh, queued, held, workers, running, up, pressure>>

WakeUp(l) ==
  /\ up /\ cpu = None /\ lp[l] = "nap"
  /\ lp' = [lp EXCEPT ![l] = "get"]
  /\ cpu' = l
  /\ UNCHANGED <<durable, status, attempt, fresh, queued, held, workers, running, up, pressure>>

\* A worker is created for whatever status the task has by now: PAUSED and
\* finished tasks included.  The handle replaces the one already in the map.
Dispatch(l, t, i) ==
  /\ Take(l, t) /\ status[t] # "CANCELLED" /\ ~Blocked(t) /\ ~Throttled(t)
  /\ ~Live(i)
  /\ SetStatus(t, "RUNNING")
  /\ queued' = [queued EXCEPT ![t] = @ - 1]
  /\ wpc' = [wpc EXCEPT ![i] = "pending"]
  /\ wtask' = [wtask EXCEPT ![i] = t]
  /\ wcancel' = [wcancel EXCEPT ![i] = FALSE]
  /\ running' = [running EXCEPT ![t] = i]
  /\ cpu' = l
  /\ UNCHANGED <<ops, crashes, attempt, fresh, lp, held, permits, up, pressure>>

\* what a client asks for while an entry is being dispatched
Asked == [cancel |-> "CANCELLED", pause |-> "PAUSED"]

\* A client in another thread cancels or pauses between the check of the status
\* and the entry of the new handle: the worker it finds, if any, is the one of
\* before, and whichever of the two assigns the status last decides what is shown.
\* The new worker is not told to stop.
Overtaken(l, t, i, op) ==
  /\ ~OneLoop /\ op \in ClientOps /\ ops < MaxOps
  /\ Take(l, t) /\ status[t] # "CANCELLED" /\ ~Blocked(t) /\ ~Throttled(t)
  /\ ~Live(i)
  /\ ops' = ops + 1
  /\ \E s \in {"RUNNING", Asked[op]} :
       /\ s = "RUNNING" => op = "cancel" \/ status[t] \notin Terminal
       /\ SetStatus(t, s)
  /\ queued' = [queued EXCEPT ![t] = @ - 1]
  /\ wpc' = [wpc EXCEPT ![i] = "pending"]
  /\ wtask' = [wtask EXCEPT ![i] = t]
  /\ wcancel' = [j \in Insts |-> j # i /\ (wcancel[j] \/ running[t] = j)]
  /\ running' = [running EXCEPT ![t] = i]
  /\ cpu' = l
  /\ UNCHANGED <<crashes, attempt, fresh, lp, held, permits, up, pressure>>

\* the queue is empty: get() suspends the loop
Park(l) ==
  /\ up /\ cpu = l /\ \A t \in Tasks : queued[t] = 0
  /\ cpu' = None
  /\ UNCHANGED <<durable, status, attempt, fresh, queued, lp, held, workers, running, up, pressure>>

-----------------------------------------------------------------------------
(* _run_task: a worker from its creation to its end.  "pending" covers the *)
(* worker that has not started and the one queued at the semaphore.        *)

Step(i, at) == up /\ cpu = None /\ wpc[i] = at

Release(i) ==
  /\ wpc' = [wpc EXCEPT ![i] = "free"]
  /\ wtask' = [wtask EXCEPT ![i] = None]
  /\ wcancel' = [wcancel EXCEPT ![i] = FALSE]
  /\ permits' = permits + 1

\* mutant: the finally clause is gone
KeepHandle(i) == running' = running

\* finally: the handle is dropped by task id, whichever worker it belongs to
DropHandle(i) == running' = [running EXCEPT ![wtask[i]] = None]

\* mutant: the semaphore does not hold a worker back
AcquireUnchecked(i) ==
  /\ Step(i, "pending") /\ ~wcancel[i]
  /\ wpc' = [wpc EXCEPT ![i] = "body"]
  /\ permits' = permits - 1
  /\ UNCHANGED <<durable, status, attempt, fresh, queueing, wtask, wcancel, running, up, pressure>>

Acquire(i) ==
  /\ Step(i, "pending") /\ ~wcancel[i] /\ permits > 0
  /\ wpc' = [wpc EXCEPT ![i] = "body"]
  /\ permits' = permits - 1
  /\ UNCHANGED <<durable, status, attempt, fresh, queueing, wtask, wcancel, running, up, pressure>>

\* Cancelled outside the try block: no permit to return, and the handle stays
\* in the map although its worker is gone.
CancelledPending(i) ==
  /\ Step(i, "pending") /\ wcancel[i]
  /\ wpc' = [wpc EXCEPT ![i] = "free"]
  /\ wtask' = [wtask EXCEPT ![i] = None]
  /\ wcancel' = [wcancel EXCEPT ![i] = FALSE]
  /\ running' = [running EXCEPT ![wtask[i]] = IF @ = i THEN Stale ELSE @]
  /\ UNCHANGED <<durable, status, attempt, fresh, queueing, permits, up, pressure>>

\* _wake_dependents: WAITING tasks that name t as a dependency, besides the
\* entry the loop that postponed them puts back
Woken(t) == {u \in Tasks \ {t} : status[u] = "WAITING" /\ t \in Deps[u]}

Succeed(i) ==
  LET t == wtask[i]
      changed == [u \in Woken(t) \cup {t} |-> IF u = t THEN "COMPLETED" ELSE "QUEUED"]
  IN /\ Step(i, "body") /\ ~wcancel[i] /\ Resolvable(t)
     /\ status' = [u \in Tasks |-> IF u \in DOMAIN changed THEN changed[u] ELSE status[u]]
     /\ store'  = [u \in Tasks |-> IF u \in DOMAIN changed THEN changed[u] ELSE store[u]]
     /\ queued' = [u \in Tasks |-> IF u \in Woken(t) THEN queued[u] + 1 ELSE queued[u]]
     /\ DropHandle(i)
     /\ Release(i)
     /\ UNCHANGED <<ops, crashes, attempt, fresh, lp, held, cpu, up, pressure>>

\* The process dies after the completion is committed, before the dependents are.
CrashInSucceed(i) ==
  /\ Step(i, "body") /\ ~wcancel[i] /\ Resolvable(wtask[i]) /\ crashes < MaxCrashes
  /\ store' = [store EXCEPT ![wtask[i]] = "COMPLETED"]
  /\ crashes' = crashes + 1
  /\ Forget
  /\ UNCHANGED ops

Retryable(t) == attempt[t] < MaxRetries

\* mutant: the permit is given back for the time of the backoff
FailRetryReleases(i) ==
  LET t == wtask[i] IN
  /\ Step(i, "body") /\ ~wcancel[i] /\ Retryable(t)
  /\ attempt' = [attempt EXCEPT ![t] = @ + 1]
  /\ SetStatus(t, "QUEUED")
  /\ wpc' = [wpc EXCEPT ![i] = "backoff"]
  /\ permits' = permits + 1
  /\ UNCHANGED <<ops, crashes, fresh, queueing, wtask, wcancel, running, up, pressure>>

\* mutant: the handle is dropped before the backoff instead of after it
FailRetryForgets(i) ==
  LET t == wtask[i] IN
  /\ Step(i, "body") /\ ~wcancel[i] /\ Retryable(t)
  /\ attempt' = [attempt EXCEPT ![t] = @ + 1]
  /\ SetStatus(t, "QUEUED")
  /\ wpc' = [wpc EXCEPT ![i] = "backoff"]
  /\ DropHandle(i)
  /\ UNCHANGED <<ops, crashes, fresh, queueing, wtask, wcancel, permits, up, pressure>>

\* the body raises and an attempt is left: back off inside the semaphore
FailRetry(i) ==
  LET t == wtask[i] IN
  /\ Step(i, "body") /\ ~wcancel[i] /\ Retryable(t)
  /\ attempt' = [attempt EXCEPT ![t] = @ + 1]
  /\ SetStatus(t, "QUEUED")
  /\ wpc' = [wpc EXCEPT ![i] = "backoff"]
  /\ UNCHANGED <<ops, crashes, fresh, queueing, wtask, wcancel, permits, running, up, pressure>>

FailFinal(i) ==
  LET t == wtask[i] IN
  /\ Step(i, "body") /\ ~wcancel[i] /\ ~Retryable(t)
  /\ attempt' = [attempt EXCEPT ![t] = @ + 1]
  /\ SetStatus(t, "FAILED")
  /\ DropHandle(i)
  /\ Release(i)
  /\ UNCHANGED <<ops, crashes, fresh, queueing, up, pressure>>

\* the backoff is over: the entry is put whatever the status is by now
EndBackoff(i) ==
  /\ Step(i, "backoff") /\ ~wcancel[i]
  /\ queued' = Put(wtask[i])
  /\ DropHandle(i)
  /\ Release(i)
  /\ UNCHANGED <<durable, status, attempt, fresh, lp, held, cpu, up, pressure>>

\* mutant: cancellation is handled like any other exception
InterruptedIsFailure(i) ==
  LET t == wtask[i] IN
  /\ Step(i, "body") /\ wcancel[i] /\ Retryable(t)
  /\ attempt' = [attempt EXCEPT ![t] = @ + 1]
  /\ SetStatus(t, "QUEUED")
  /\ wpc' = [wpc EXCEPT ![i] = "backoff"]
  /\ wcancel' = [wcancel EXCEPT ![i] = FALSE]
  /\ UNCHANGED <<ops, crashes, fresh, queueing, wtask, permits, running, up, pressure>>

\* CancelledError in the body (handler: upsert) or in the backoff
Interrupted(i) ==
  LET t == wtask[i] IN
  /\ \/ Step(i, "body") /\ store' = [store EXCEPT ![t] = status[t]]
     \/ Step(i, "backoff") /\ UNCHANGED store
  /\ wcancel[i]
  /\ DropHandle(i)
  /\ Release(i)
  /\ UNCHANGED <<ops, crashes, status, attempt, fresh, queueing, up, pressure>>

-----------------------------------------------------------------------------
ClientStep(t) == Create(t) \/ Pause(t) \/ Resume(t) \/ Cancel(t) \/ Retry(t)

LoopStep(l) ==
  \/ \E t \in Tasks : \/ Drop(l, t) \/ Postpone(l, t) \/ Throttle(l, t)
                      \/ \E i \in Insts : Dispatch(l, t, i)
                      \/ \E i \in Insts, op \in DOMAIN Asked : Overtaken(l, t, i, op)
  \/ Requeue(l) \/ WakeUp(l) \/ Park(l)

WorkerStep(i) ==
  \/ Acquire(i) \/ CancelledPending(i)
  \/ Succeed(i) \/ FailRetry(i) \/ FailFinal(i)
  \/ EndBackoff(i) \/ Interrupted(i)

Next ==
  \/ Boot \/ Crash \/ Shutdown
  \/ \E t \in Tasks : CrashInCreate(t)
  \/ \E i \in Insts : CrashInSucceed(i)
  \/ \E t \in Tasks : ClientStep(t)
  \/ SetBackgroundPaused \/ LoadChanges
  \/ \E l \in Loops : LoopStep(l)
  \/ \E i \in Insts : WorkerStep(i)

Spec == Init /\ [][Next]_vars
-----------------------------------------------------------------------------
(* Properties that hold for every use of the engine.                       *)

\* Types of the variables.
TypeOK ==
  /\ store \in [Tasks -> Statuses] /\ status \in [Tasks -> Statuses]
  /\ attempt \in [Tasks -> Nat] /\ fresh \subseteq Tasks
  /\ queued \in [Tasks -> Nat]
  /\ lp \in [Loops -> {"get", "yield", "nap"}]
  /\ held \in [Loops -> Tasks \cup {None}]
  /\ \A l \in Loops : lp[l] = "yield" <=> held[l] # None
  /\ cpu \in Loops \cup {None}
  /\ wpc \in [Insts -> {"free", "pending", "body", "backoff"}]
  /\ wtask \in [Insts -> Tasks \cup {None}]
  /\ \A i \in Insts : Live(i) <=> wtask[i] # None
  /\ wcancel \in [Insts -> BOOLEAN]
  /\ running \in [Tasks -> Insts \cup {None, Stale}]
  /\ permits \in Nat
  /\ up \in BOOLEAN /\ floor \in {2, 4, 5, 6} /\ bgPaused \in BOOLEAN
  /\ ops \in Nat /\ crashes \in Nat

\* Whenever the event loop can run something else, and whenever the process can
\* die, the row of a task says what its object says; a row the process has not
\* loaded is finished.  Every assignment of status in tasks.py is paired with an
\* upsert by hand; a forgotten one shows only after a restart.
StoreMatchesMemory ==
  up => \A t \in Tasks : \/ status[t] = store[t]
                         \/ status[t] = "ABSENT" /\ store[t] \in Terminal

\* What will move task t on: an entry, a loop that will put one back, or a
\* worker that was not cancelled.
WillRequeue(t) == \/ queued[t] > 0
                  \/ \E l \in Loops : held[l] = t
                  \/ \E i \in Insts : wpc[i] = "backoff" /\ wtask[i] = t /\ ~wcancel[i]
HasWorker(t) == \E i \in Insts : wpc[i] \in {"pending", "body"} /\ wtask[i] = t /\ ~wcancel[i]

\* No task is lost: one shown as QUEUED or WAITING will be looked at again, and
\* one shown as RUNNING has a worker that was not cancelled, whatever pauses,
\* resumes, cancels, retries, backoffs and wake-ups were interleaved.
NoLostTask ==
  \A t \in Tasks \ BadPriority :
    /\ status[t] \in {"QUEUED", "WAITING"} => WillRequeue(t)
    /\ status[t] = "RUNNING" => HasWorker(t)

Holding == {i \in Insts : wpc[i] \in {"body", "backoff"}}

\* No permit of the worker pool leaks or is returned twice, on any exit path of
\* _run_task: bodies and backoffs together never exceed the pool.
PermitsAccounted == permits + Cardinality(Holding) = Pool

\* The _running map never holds the handle of a live worker of another task, so
\* pause and cancel cannot hit a task they were not asked for.
HandleIsOwn == \A t \in Tasks : Handle(t) => wtask[running[t]] = t

-----------------------------------------------------------------------------
(* Properties of an engine that is used with care: clients call from its   *)
(* own loop, pause and resume no single task, and no task has              *)
(* dependencies.  A cancellation from another thread may miss the worker   *)
(* (Overtaken); a resume while the first entry is still queued and         *)
(* _wake_dependents add a second one.  With either, none of the following  *)
(* holds.  Pausing all background work adds no entry and is allowed.       *)

Careful == OneLoop /\ ClientOps \cap {"pause", "resume"} = {}
Leaves == {t \in Tasks : Deps[t] = {}}
Disciplined == Careful /\ Leaves = Tasks

WorkersOf(t) == {i \in Insts : wtask[i] = t}

\* A task has at most one driver: one queue entry and no worker, or one worker
\* and no entry; a finished task has none, and the worker of a cancelled one
\* has been told to stop.  Only of an engine used with care: see Overtaken.
OneDriver ==
  \A t \in Tasks :
    /\ queued[t] <= 1
    /\ \A i, j \in WorkersOf(t) : i = j
    /\ queued[t] = 1 => WorkersOf(t) = {} /\ status[t] \in {"QUEUED", "CANCELLED"}
    /\ status[t] \in {"COMPLETED", "FAILED", "ABSENT"} => queued[t] = 0 /\ WorkersOf(t) = {}
    /\ \A i \in WorkersOf(t) : status[t] = "CANCELLED" <=> wcancel[i]

\* Every worker that was not told to stop can still be told: its handle is in
\* the _running map over retries and backoffs, so a cancel or stop that is called
\* on the engine's own loop reaches it.
HandleReachesWorker ==
  \A i \in Insts : Live(i) /\ ~wcancel[i] => running[wtask[i]] = i

\* Used with care, the engine implements the lifecycle it promises: no task is
\* executed twice at once, after it was cancelled, or again once it has completed.
PhaseOf(s) == CASE s = "ABSENT"    -> "none"
                [] s = "COMPLETED" -> "completed"
                [] s = "FAILED"    -> "failed"
                [] s = "CANCELLED" -> "cancelled"
                [] OTHER           -> "todo"
Phase == [t \in Tasks |-> PhaseOf(store[t])]
Executing == {t \in Tasks : \E i \in Insts : wpc[i] = "body" /\ wtask[i] = t}
Lifecycle == INSTANCE TaskLifecycle WITH phase <- Phase, executing <- Executing
ImplementsLifecycle == Lifecycle!Spec

-----------------------------------------------------------------------------
(* Liveness.  asyncio runs ready callbacks first come, first served, so a  *)
(* loop or worker that is ready again and again gets its turn (SF: `cpu'   *)
(* disables its step while a loop drains the queue); bodies end; entries   *)
(* of one rank are served by time stamp, semaphore waiters in order; the   *)
(* service manager starts the process again after a crash.                 *)

Fairness ==
  /\ WF_vars(Boot)
  /\ \A l \in Loops : SF_vars(LoopStep(l))
  /\ \A t \in Tasks : SF_vars(\E l \in Loops, i \in Insts : Dispatch(l, t, i))
  /\ \A i \in Insts : SF_vars(WorkerStep(i))

FairSpec == Spec /\ Fairness

\* Once the machine is no longer under pressure and background work is allowed,
\* every task that is ready to run ends: it is executed to its end, cancelled,
\* or the process dies first.
Relaxed == <>[](floor = 6 /\ ~bgPaused)
ReadyTasksEnd ==
  Relaxed => \A t \in Tasks \ BadPriority :
    (status[t] = "QUEUED" /\ Deps[t] = {}) ~> (status[t] \in Terminal \/ ~up)

\* A task waiting for others is executed after all, unless one of them failed.
WaitingTasksEnd ==
  Relaxed => \A t \in Tasks :
    status[t] = "WAITING" ~> (status[t] \in Terminal \/ \E d \in Deps[t] : status[d] = "FAILED")

\* Dependencies are of depth one.  A task that waits is woken with an entry besides
\* the one its loop puts back, so one needed by others could run a second time.
Shallow == \A t \in Tasks : Deps[t] \subseteq Leaves

\* No body executes before the bodies it depends on have ended.
DependencyFirst ==
  \A i \in Insts : wpc[i] = "body" =>
    \A d \in Deps[wtask[i]] : status[d] \in {"COMPLETED", "CANCELLED"}
=============================================================================
