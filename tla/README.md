# Raphael: models, checks and proofs

Raphael is a desktop assistant: one Python process, an asyncio event loop (two
under `raphael server`: the runtime's and the gateway's, in two threads), a few
threads around the microphone and the language model, SQLite files, a settings
file, and clients that talk to it over HTTP and a websocket. This directory
holds TLA+ models of its control logic, the configurations TLC checks them with,
and theorems TLAPS proves about them. `PROJECT.json` lists components, runs,
mutants, theorems, hazards and findings, and gives for each definition the
source lines it translates.

    tlc -workers 2 -config TaskEngine_full.cfg MCTaskEngine.tla     # one run
    tlapm TaskEngineProofs.tla                                      # one proof

Contents: [inventory](#inventory) - [plan](#plan) - [the models](#the-models) -
[the runs](#the-runs) - [fairness](#fairness) - [the proofs](#the-proofs) -
[where code and documents disagree](#where-code-and-documents-disagree) -
[limits](#limits)

## Inventory

For each component: the state it keeps, what changes it, whom it talks to, what
is hard about it, what makes it correct, and the module that models it.

### Background task engine - `runtime/tasks.py` - TaskEngine, TaskLifecycle

* State: `_tasks` (objects with status, attempt, events), a priority queue of
  `(rank, time, task)`, the `_running` map of handles, a semaphore, and the
  SQLite table `tasks`.
* Operations: create, pause, resume, cancel, retry, set_background_paused, the
  scheduler loop, `_run_task`, `_wake_dependents`, start/recover, stop/checkpoint.
* Interaction: HTTP handlers and background_intelligence call it;
  resource_manager throttles it; always_alive starts one scheduler loop through
  `start()` and the watchdog starts a second one on the same queue.
* Hard: handlers and loops interleave at every await; queue entries outlive the
  status they were made for; a cancelled worker may not have had its first step;
  operations commit twice; a crash is possible anywhere.
* Correct if: no task is lost, permits are returned once, the row equals the
  object, a handle is of its task's worker, ready tasks end; and, where clients
  call from the engine's own loop, nobody pauses and no task depends on another,
  none is driven twice and a cancelled one is stopped.

### Modes and voice - `runtime/always_alive.py`, `voice/pipeline.py`, `voice/audio_state.py`, `voice/wakeword.py` - VoiceControl

* State: `_mode`, the audio state, the detector's `enabled`, the microphone.
* Operations: set_mode, interrupt, stop, `_on_wake`, handle_speech_input,
  run_command, speak.
* Interaction: microphone threads post frames to the loop; each transcript is a
  task of its own; all of them assign the one audio state; the UI shows it.
* Hard: handlers in flight finish after the mode has changed; two commands and a
  barge-in overlap.
* Correct if: no passing state is left standing, the microphone is deaf in private modes.

### Microphone - `voice/microphone.py`, `voice/device_selector.py` - MicCapture

* State: `_running`, `_thread`, `_current_device`, the hotswap monitor with its
  `_running` and `_last_device`; the devices plugged in.
* Operations: start, stop, the capture thread, the monitor's poll,
  `_on_device_change`, select_best_device.
* Interaction: modes start and stop it from the event loop; a monitor thread
  replaces the capture thread; they share the flag without a lock.
* Hard: threads interleave at every statement; joins give up; a stream opens late
  or not at all; a stop falls between the check and the restart of a change.
* Correct if: off means off, one capture thread at a time, devices are given back.

### From sound to transcript - `voice/microphone.py`, `voice/pipeline.py`, `voice/stt.py` - Listening

* State: the callbacks of the loop, the command buffer with the time of its
  start and of the last speech, the listening state.
* Operations: the block callback, `_dispatch`, CommandBuffer.feed and
  `_finalize`, `_on_command_segment`, `_transcribe_segment`.
* Hard: blocks, segments and recognitions queue up on one loop that a recogniser
  may hold; listening is switched off in the middle of a segment.
* Correct if: what was heard is recognised once, in order, cut at silences.

### Conversation - `brain/reasoning.py`, `brain/planner.py`, `tools/registry.py`, `security/confirmation.py`, `security/policies.py`, `core/state_manager.py` - Conversation

* State: the assistant state, one coroutine per request with its plan, the
  pending confirmations and their futures.
* Operations: process_user_input, execute_plan (one retry per step),
  Tool.execute, request_confirmation, resolve_confirmation, set_state.
* Interaction: websocket, HTTP and voice start requests that run side by side;
  tool executions are also started by `POST /api/tools/execute` and by
  background tasks; the user answers through HTTP or the websocket.
* Hard: an answer races the timeout; a retry asks again; a request is cancelled
  while it announces its question or waits for the answer; requests, barge-ins and
  wake phrases overwrite each other's assistant state.
* Correct if: a privileged execution has consent to exactly itself, no question
  leaks, a plan tells the truth, every request ends, idle is shown after it.

### LLM router - `brain/llm_router.py`, `POST /api/config/llm` - LLMRouter

* State: the configuration, the dictionary of providers, and per chat a thread,
  a queue and the parts received.
* Operations: get_active_provider, `_streaming_request`, `_build_providers`.
* Hard: a choice reads the router in several steps while another thread rebuilds
  it; a response breaks off; a chat is cancelled while its thread goes on.
* Correct if: what was read is delivered whole and in order or the call raises, a
  chat uses the configuration that was answered before it, chats and their
  threads end. (That a response was complete is not checked by the code.)

### Supervision - `runtime/health_monitor.py`, `proactive/proactive_engine.py`, `runtime/background_intelligence.py`, `core/runtime.py` - Supervision

* State: component statuses, restart counters, supervisors, the budget of an
  hour (window, count, last time), the maintenance tasks, the runtime's life.
* Operations: `_supervise`, snapshot and its probes, is_healthy,
  evaluate_proactive_opportunity, `_check_budget`, the sweep, start and stop.
* Interaction: the watchdog writes the map probes overwrite; the proactive engine
  speaks only if every entry is good; two loops call it.
* Hard: snapshots suspend halfway and overlap crashes and each other; the window
  turns between two callers; restarts run out.
* Correct if: a dead worker is shown dead, a crashed one comes back, no hour has
  more suggestions than two windows of the budget allow.

### Settings - `core/configuration.py`, `POST /api/config/llm`, `cli.py` doctor - Settings

* State: `config.override.json`, the configuration object of each process, the
  providers built from it.
* Operations: load, making and saving a token, partial update, save, rebuild.
* Hard: the file is emptied before it is written; two processes read, merge and
  write it; a write fails or is cut off.
* Correct if: the API token stays, and memory, file and router agree.

### Memory - `memory/long_term.py`, `memory/episodic_memory.py`, `memory/semantic_memory.py`, `memory/vector_store.py`, `memory/memory_manager.py` - Memory

* State: the schemas and rows of `memory.db`, a cache of embeddings by id.
* Operations: migrations, store_fact with its conflicts, search, forget.
* Hard: a call is several transactions; two threads resolve the same conflict; a
  migration is cut off between two statements; ids are reused by a cache or not.
* Correct if: replacing a fact never loses it unless a kill or an error of SQLite cuts it off, each fact is compared by its own
  text, any old database comes up.

### Events and clients - `core/event_bus.py`, `core/state_manager.py`, `network/websocket.py` - Delivery

* State: the current state, broadcasts under way, connections.
* Operations: set_state, publish, broadcast, connect, disconnect.
* Hard: a broadcast is suspended at each client; clients come, go and fail
  meanwhile; broadcasts of two publishers are interleaved.
* Correct if: one publisher's events arrive in order, once, and the state that is
  shown in the end is the current one.

### Not modelled

| Component | Why |
|---|---|
| Intent, context, meta-cognition, attention, goals (`brain/*`) | keyword heuristics and row stores; what they return is a choice in the models that use it |
| Learning, proactive content, profile, procedures, preferences | single statements over rows, text generation |
| Speech synthesis | engines are external; its cancel event is set only through start_listening, which nothing calls |
| Scheduler (`core/scheduler.py`) | its loop runs, but nothing calls schedule_task, so it never has a job |
| Perception, platform adapters, tools, frontend, scripts | calls into the operating system and the user interface |
| Launcher and command line | start processes; the doctor's use of the settings is in Settings |

## Plan

Written, in the order of importance:

1. `TaskLifecycle` (abstract) and `TaskEngine` (detailed), `TaskEngineProofs`.
2. `VoiceControl`.
3. `Conversation`, `ConversationProofs`.
4. `MicCapture`: the thread level below the `mic` and `late` of VoiceControl; `Listening`,
   what becomes of the sound; `VoiceProofs`, about all three.
5. `Supervision`, `SupervisionProofs`: watchdog, health, proactive engine.
6. `Settings`, `SettingsProofs`; `Memory`, `MemoryProofs`.
7. `Delivery`, `DeliveryProofs`; `LLMRouter`, `LLMRouterProofs`.

Left, in this order:

* TaskEngine with the gateway in a thread of its own at every statement, and not only inside a dispatch.
* An abstract microphone (on, off) that MicCapture implements where no change
  races a stop, and that VoiceControl uses.
* An action property of TaskEngine: what a client is told about a task is never taken back.
* `DependencyFirst` for dependencies of any depth. It does not hold of the code, which adds an entry
  for a woken task besides the one its loop puts back; what does hold is to be found.

## The models

All share one convention: an action is what a coroutine does between two awaits
that suspend it, since on one event loop nothing else runs in between; where
threads or processes share something, an action ends at each access the other
can see. A position variable (`wpc`, `hpc`, `pc`, ...) says where each actor
stands. Definitions keep the names of the source where there are any. Operators
under the comment "mutant:" are not part of a model: each is a definition changed
the way a bug would, and belongs to one property (see `PROJECT.json`, "mutants").
Variables "kept for the properties" record the past and guard nothing but bounds.

VoiceControl, MicCapture and Listening put the name of the component before the operators that
every specification has (`VoiceInit`, `MicNext`, `ListeningSpec`), since one module of proofs
extends all three.

### TaskEngine

| Variable | Code |
|---|---|
| `store` | status column of the table; survives a crash |
| `status`, `attempt`, `fresh` | `_tasks[t]`: status, `_attempt`, has its coroutine |
| `queued` | how many entries the queue holds for a task |
| `lp`, `held`, `cpu` | each scheduler loop: at `get`, in `sleep(0)` with a task in hand, asleep after throttling a task; `cpu` is the loop that has not awaited yet |
| `wpc`, `wtask`, `wcancel`, `running` | workers: pending, body or backoff; what they run; told to stop; the `_running` map |
| `permits` | free slots of the semaphore |
| `floor`, `bgPaused` | lowest rank the resource manager throttles; background work paused |
| `up`, `ops`, `crashes` | the process runs; bounds |

`Queue.get()` on a non-empty queue does not suspend, so a loop drains several
entries in one go: `cpu` keeps other actions out until the loop awaits. Operations
that commit twice (`create`, the success path) have a second action for a crash
between the commits. `Create`, `Pause`, `Resume`, `Cancel`, `Retry` are the HTTP
handlers; `Take`/`Drop`/`Postpone`/`Throttle`/`Dispatch` the branches of one
iteration; `Acquire` to `Interrupted` the exits of `_run_task`. A handle whose
worker is gone is `Stale`: it is what a worker leaves that was cancelled before its
first step. Time stamps are abstracted: among entries of one rank any may come first.

`OneLoop` says where clients are. Started by runtime_launcher (the unit of README.md:388) the
runtime and its gateway share one loop, and a call never falls inside an action. Under
`raphael server` the gateway has a thread of its own: `Overtaken` is a dispatch into which a
cancel or a pause falls, between the check of the status and the entry of the new handle. It
stops nobody, and either thread may assign the status last.

`TaskLifecycle` is what the engine promises: phases and the set of executing
bodies. `ImplementsLifecycle` maps a row's status to its phase and the workers in
their body to `executing`.

### VoiceControl

`mode`, `asm`, `wwd`, `mic`, `late`, `bgPaused`, `alive` are the controller's mode,
the audio state, the detector's flag, the microphone, frames posted before its
last stop, paused background work, and whether stop() was called. `hpc[h]` is
the position of a transcript's handler, `ipc[k]` of a barge-in. set_mode is four actions, one
for each thing it assigns (`SetMode`, `SwitchDetector`, `SwitchMic`, `SwitchState`), since under
`raphael server` it runs beside the loop that dispatches sound; `target` and `spc` are the mode it
was called with and how far it is. `StopVoice` is controller shutdown. Capture threads are
abstracted to `mic` and `late`. The wake word has two ways in: `WakeWord`, the audio detector,
which the modes switch off, and `Acknowledge` and `Understand`, a transcript with the wake phrase,
which looks at no mode; `PrivateModesDeaf` speaks of the first, and of what is sent to the
recogniser.

### Conversation

`pc[r]` is the await at which a request stands, mostly the assistant state it
entered last; `job[r]` what intents, planner and LLM made of it (a kind and a
list of tools); `at[r]`, `try[r]` its step and attempt. An execution has the id
`<<r, step, attempt>>`, which stands for the random id of a confirmation and makes
"this very execution" expressible. `ran`, `outcome` and `answer` remember what
happened to each id; `said` what the user was told. `orphaned` and `last` are kept for the
properties: the questions whose request was cancelled while they were announced, and how the
last request ended or that the voice was called.

`Arrive` to `Execute` follow process_user_input to the tool or the plan, `Deny` to
`Return` Tool.execute and the dialogue, `NextStep` to `Complete` execute_plan,
`Verify` to `Apologised` the way to the answer. `Break` is an exception of a database
access, or of the policy or the registry over the arguments of a tool. `Heard` and `HandOn` are a
spoken command, `Called` is a barge-in or a bare wake phrase, which assign the same assistant state.
A question is registered and announced (`Ask`), and only when that is published is it waited for
(`Await`); `Withdraw` in between leaves it in `pending`, as the code does.
A tool of the model is a tool with its arguments, since the policy judges both.

The timeout has two actions. Up to Python 3.11 `wait_for` looks at the future again when it
resumes after its timer (`TimerFires`); from 3.12 on the timer cancels the await
(`TimerCancels`). README.md:169 asks for 3.10 and names 3.12 as tested, so both are outcomes
of the program.

### MicCapture

`running`, `thread`, `current`, `monitor` are the fields of MicrophoneSource;
`cpc[k]` and `source[k]` a capture thread and the device it opened; `mpc[m]`,
`watching[m]`, `last[m]` a hotswap monitor; `lpc` where the event loop is in
start or stop; `joining` which thread a joiner waits for. `Start`,
`StartMonitor`, `Stop`, `StopMonitor`, `MonitorStopped`, `Stopped` are the
statements of start and stop that touch what others write; `Notice`,
`CheckRunning`, `StopCapture`, `Restart` those of a device change, which holds the
answer of its check over a join. A join returns when its thread has ended or
its time is up (`JoinOver`). `Best` is the device selector as an operator:
override by name, no loopbacks if there is anything else, transport, the
system's default, position.

The two properties on `running` and on capture threads exclude by `raced`, `overrun` and
`leaked` what the code does get wrong (see findings): a stop that falls into a device change, a join
that gave up, a start that leaves a second monitor. What they say is that there is nothing else.

### Listening

`ready` is the loop's queue of callbacks: blocks to dispatch, segments, recognitions;
`buf`, `start`, `last` the command buffer. Time is counted in blocks, and the
loop may be late by `MaxDelay`. A segment is put behind what already waits, and so is
its recognition, as `call_soon` and `create_task` do. The buffer takes the time of dispatch and
not of capture, hence the tolerance in `CutAtSilence`.

### LLMRouter

`current` and `providers` are the configuration and the revision the providers were
built from; `change` where set_llm_config stands between the two. A call reads the name of the
primary (`ReadName`), then the provider (`ReadProvider`), asks it (`UsePrimary`, `UseFallback`),
and starts a thread (`Open`); `queue[c]`, `reader[c]` and `sent[c]` are the queue, the
thread and what it has put; `answer[c]` what the coroutine has taken.
`Cancelled` leaves the thread running. `ReadEnd` is the end of the response, whether or not its
last line came: the code does not look for it. Parts are numbers, so that order and loss show.

### Supervision

`wpc[w]` and `restarts[w]` are a supervised worker and its crashes; `good[c]`
whether is_healthy accepts a component's status; `asking[o]` an observer that is suspended
in the LLM probe of a snapshot; `cpc[c]` the two loops that call
evaluate_proactive_opportunity; `start`, `count`, `last` the budget. A
snapshot is two actions, `Ask` and `Answer`, since it suspends once. What probes
measure, the load, and whether there is anything to say are choices. `Evaluate`
decides and accounts in one action, as the code does before it first awaits.

### Settings

`file` is the content of the overrides file, or that it is absent, emptied, or
two writes over each other; `pc[p]` says where a process is between reading and writing;
`mem[p]` its configuration; `built` what the router's providers were built from. A save
is two actions with the emptied file in between. `SaveRefused` and `WriteFails` are a file
that cannot be opened and a full disk; `Exit` is the end of a process anywhere. `hurt` records
that a write was cut off or two processes were at the file at once: then the code
promises nothing, and indeed loses the settings (findings).

### Memory

`at` walks through the statements of a start, each a transaction; `memories`,
`episodes`, `aside`, `legacyRows` are the schemas. Any database of an earlier release is an
initial state. `want[t]`, `left[t]`, `scanning[t]` are a thread inside store_fact: what it
stores and the conflicting rows it has still to look at. `Reinforce`, `Supersede`, `Keep` and
`Insert` are the branches, one commit each; `StoreFails` is an error of SQLite at any of them.
`cache` maps ids to the text that was embedded.

### Delivery

`event`, `stage`, `left` and `failed` are the broadcasts: what was published by whom, how far
it is, the clients it has not reached, those it failed at; `conn`, `active` and `sync` the
connections: registered first, then the state is read, then sent. `crossed` records that a state
was set while another one was on its way or a client was being given one.

## The runs

| Run | Instance | What it shows |
|---|---|---|
| task_engine_full | 3 tasks (one with a dependency, one with an unknown priority), 3 workers, 2 loops, pool 1, one retry, 2 client operations, 1 crash, pressure, clients in a thread of their own; symmetry of workers and loops | `StoreMatchesMemory`, `NoLostTask`, `PermitsAccounted`, `HandleIsOwn` under every operation |
| task_engine_disciplined | 2 tasks, 2 workers, 2 loops, cancel and retry, 1 crash, pressure | clients on the engine's loop: `OneDriver`, `HandleReachesWorker`, the refinement `ImplementsLifecycle`, and `ReadyTasksEnd` |
| task_engine_dependencies | a task that needs two others, 4 workers, a cancel | `DependencyFirst`; it does run (`WaitingTasksEnd`) |
| voice_control | 2 transcripts, 2 barge-ins, every mode, assignment by assignment | `TransientOwned`, `PrivateModesDeaf`, `TransientEnds` |
| mic_capture | 3 capture threads, 2 monitors, a headset and a built-in microphone, 2 changes of devices, 1 stream that fails | `CleanStopIsOff`, `OneCapture`, `SilenceComes` |
| listening | 8 blocks, silence after 2, at most 4 in a segment, loop late by 1 | `CommandsWhole`: every block heard is recognised once and in order, commands are cut at silences |
| conversation | 2 requests, jobs with a tool of each policy verdict, a plan whose first step is privileged and whose second is not | `ConsentGiven`, `PendingIsAsked`, `PlanIsHonest`, `IdleUnlessBroken`, `RequestsEnd` |
| llm_router | 2 chats, a provider that comes and goes and a fallback, 2 parts, 1 change | `AnswerIsRight`, `CallsEnd` |
| supervision | 2 workers, 2 restarts, a budget of 1 in 3 units of time, spacing 1, 5 units | `HonestHealth`, `SlidingBudget`, `WorkersComeBack` |
| settings | the server and a doctor, 2 fields with 2 values, 4 starts | `SettingsAgree`: token, memory, file and router |
| memory | 2 threads, 1 topic, 2 values, 3 confidences, 3 facts, 3 starts; symmetry of threads and values | `Recall`: no fact is lost by being replaced and each is compared by its own text; `BootRecovers` |
| delivery | 2 publishers, 2 clients, 2 states, 3 events; symmetry of publishers and clients | `InOrder`, `ShownWhenQuiet` |

Why the bounds are enough to be of use:

* Tasks meet through the queue, the pool and dependencies. Pool 1 with two or
  three tasks has a worker that waits, a loop with a task in hand and an entry in
  the queue at once; two client operations suffice for the pairs that matter (pause then
  resume, cancel then retry) and one crash for each place of a crash. `MaxOps`,
  `MaxCrashes` and the worker identities bound the run only; the code has no
  such bounds. When every identity is taken `Dispatch` waits, which the code does not;
  in `full` a third worker needs a second entry or a retry, and those occur.
  Worker and loop identities are interchangeable, which makes symmetry sound; no
  run with symmetry checks liveness.
* Audio handlers meet only in the audio state. Two are needed for one to overwrite
  another, the second barge-in is for chains of that.
* Two capture threads are the hazard; a third is started by a device change after
  a restart, and a second monitor is the one that a start leaks.
* A segment of speech, its silence, and the next one fit into eight blocks, and so does one that
  reaches the maximal length.
* Requests meet in the assistant state and in `pending`; two are enough for
  each pair of positions. A plan of two steps has a first, a last, a step after
  a failure.
* A chat races a change of the configuration in each of its steps; the second chat
  begins after it. Two parts have an order, and a break before, between and after.
* Five units of time hold two windows of the budget and an hour that spans both.
* Four starts are a first one, a doctor beside it, and a restart after each.
* Two threads that each replace the other's fact need two rows, and one more to be
  replaced; `Listed` 2 lets a search miss rows. Three starts are a failed one, the next, and
  one more that must not fail.
* Three broadcasts have one under way, one created and one that crosses both.

The theorems drop the bounds for what they prove. `full` and `disciplined` check for
deadlock; elsewhere the system may rest for ever: what clients, crashes and
devices do is bounded, and requests in the model end.

## Fairness

* Task engine: weak fairness of `Boot` (a service manager restarts the
  process); strong fairness of each loop, each worker and of dispatching each
  task. Asyncio runs ready callbacks in order, so a coroutine that is ready
  again and again gets its turn, but its action is disabled whenever a loop
  holds the CPU, hence strong. Dispatch of one task among equals is by time
  stamp, which is abstracted, hence its own condition. Bodies are assumed to end.
  `ReadyTasksEnd` is stated for a machine that relaxes (`Relaxed`), for under permanent
  pressure the code postpones background tasks on purpose. Clients and crashes have no fairness.
* Voice: weak fairness of each handler and barge-in. Recognition, reasoning and
  speech have timeouts or end; their actions stay enabled.
* Microphone: weak fairness of the rest of start and stop on the loop, of each monitor and
  of each capture thread: threads are scheduled, sleeps, joins and the opening of a stream
  end. Nobody has to call start or stop.
* Conversation: weak fairness of each request. Tools and LLM calls end, timers
  fire. Nothing makes the user answer: `Resolve` and `Withdraw` are not fair, and `RequestsEnd`
  holds by the timeout.
* LLM router: weak fairness of each chat and of its thread; a read of a response has a
  timeout. Availability and changes are not fair, nor is cancellation.
* Supervision: weak fairness of what a supervisor does after a crash: its publication
  and its sleep end. Workers need not crash, observers need not ask.
* Settings, memory, delivery and listening have safety properties only.

## The proofs

TLAPS checks, for every value of the constants that satisfies the named
assumptions of the modules (distinct model values, finitely many workers, a
pool of at least one, ranks 0..5; jobs that have the tools their kind needs; a
spacing of at most an hour):

| Module | Theorem | Statement |
|---|---|---|
| TaskEngineProofs | `TypeCorrect` | `Spec => []TypeOK` |
| | `HandlesAreOwn` | `Spec => []HandleIsOwn` |
| | `StoreAgrees` | `Spec => []StoreMatchesMemory` |
| | `NoTaskLost` | `Spec => []NoLostTask` |
| | `PoolBound` | `Spec => []PermitsAccounted` |
| | `SoleDriver` | `Spec => []OneDriver`, if `Disciplined` |
| | `WorkersReached` | `Spec => []HandleReachesWorker`, if `Disciplined` |
| | `EngineRefines` | `Spec => ImplementsLifecycle`, if `Disciplined` |
| | `DependenciesFirst` | `Spec => [](crashes = 0 => DependencyFirst)`, if `Careful` and `Shallow` |
| | `DependenciesNeverOverlap` | while a body executes, every task it needs is over or of an earlier process, crashes included; if `Careful` and `Shallow` |
| VoiceProofs | `VoiceTypes`, `NeverStuck` | `VoiceSpec => []` of `VoiceTypeOK`, `TransientOwned` |
| | `PrivacyKept` | `VoiceSpec => PrivateModesDeaf` |
| | `SelectionSound` | what `Best` chooses, for every set of devices |
| | `MicTypes`, `OffIsOff`, `CaptureIsSole` | `MicSpec => []` of `MicTypeOK`, `CleanStopIsOff`, `OneCapture` |
| | `CommandsAreWhole` | `ListeningSpec => []CommandsWhole` |
| ConversationProofs | `ConversationTypes` | `Spec => []TypeOK` |
| | `PendingAreAsked`, `ConsentIsGiven` | `Spec => []` of `PendingIsAsked`, `ConsentGiven` |
| | `PlansAreHonest`, `IdleShown` | `Spec => []` of `PlanIsHonest`, `IdleUnlessBroken` |
| LLMRouterProofs | `RightAnswers` | `Spec => []AnswerIsRight` |
| SupervisionProofs | `SupervisionTypes`, `HealthIsHonest` | `Spec => []` of `TypeOK`, `HonestHealth` |
| | `BudgetKept` | `Spec => []SlidingBudget` |
| SettingsProofs | `SettingsKept` | `Spec => []SettingsAgree` |
| MemoryProofs | `MemoryTypes`, `StartsRecover` | `Spec => []` of `TypeOK`, `BootRecovers` |
| | `MemoryRecalls` | `Spec => []Recall` |
| DeliveryProofs | `OrderIsKept`, `StateIsShown` | `Spec => []` of `InOrder`, `ShownWhenQuiet` |

The arguments:

* *Task engine.* `TypeOK` carries more than types: a loop holds a task exactly in
  its yield and a worker exactly when it is live. `HandleIsOwn` is inductive given
  that: a handle is entered together with its worker, and an identity is reused only after
  its handle has gone or become `Stale`. `NoLostTask` needs `HandleIsOwn`: a pause
  stops the worker whose handle stands under the task, and if that were another
  task's worker, the other one would be lost. `PermitsAccounted` counts: each action
  adds to `permits` what it takes from the set of holders.
* *An engine used with care.* `CareInv` says of each task what drives it
  (`Driven`: one entry, or one worker, or none; a worker in backoff has its task
  QUEUED or cancelled; its handle stands in the map unless it was told to stop) and of a
  process that is down, and of loops, that they hold nothing (`Resting`).
  `OneDriver` and `HandleReachesWorker` follow. `Disciplined` is needed (clients on the engine's
  own loop, no pause or resume, no dependencies): a resume and a woken dependent add an entry to
  the one that is there, and a cancel from another thread inside a dispatch stops nobody, which
  TLC shows in a few steps. The refinement maps the status of a row to its phase and the workers in their body to
  the executing tasks; with `CareInv` each action is one of TaskLifecycle or changes
  neither: the worker of a task is the only one, so a body that begins was not
  executing, and only the worker of a cancelled task is told to stop.
* *Dependencies.* `Careful` says that clients call from the engine's loop and do not pause or resume
  single tasks (background work may be paused), `Shallow` that what is needed needs nothing itself, `Leaves` are the tasks
  without dependencies. `CareInv` is stated for the leaves, so it also serves here: a leaf has
  one driver, so once it is COMPLETED or CANCELLED it stays so until the process ends. `Awaited`: a worker is
  given a task only once the tasks it needs are over (`Done`), and they stay so. Two
  more facts tell over from forgotten: tasks needed by a stored one are stored (`Closed`, from the
  ids that create returns), and until the first crash the process knows every stored task
  (`Remembered`). After a crash `DependencyFirst` does not hold: what a process does not know is
  taken to be finished, also if it failed. Deeper dependencies break it too.
* *Voice.* `TransientOwned` is inductive as it stands. `PrivacyKept` rests on
  `PrivateOff`: in a private mode the detector and the microphone are off, each as soon as
  set_mode has got that far. Only set_mode switches them on, one call at a time, and FOCUS,
  which leaves the detector alone, is not private.
* *Microphone.* `OffIsOff` follows the flag through the actions that set it: a monitor
  that is past its check makes a stop raced, and one that checks later finds the flag
  cleared. `CaptureIsSole` says for whoever is about to start a thread
  that the one before it has ended, and that one monitor at most is watching.
  `SelectionSound` needs a least element of a set of numbers, which the
  library has by well-foundedness.
* *From sound to transcript.* The invariant has a place for every block: the stage it is in (the loop's
  blocks, the buffer, segments, recognitions, calls made), the number of its piece there, its
  index. `InOrder`: places that come earlier hold earlier blocks, which excludes loss
  of order and repetition at once; `NoneLost`: every block heard has a place or was discarded.
  Each action moves places monotonically (lemmas `Carried`, `Moved`, `QueueMoves`). For the
  cuts, `Timely` bounds how long a block waits, `Hearsay` says of the segment being heard
  when it began, when it last held speech and that it has no long pause so far, and `AllCut` that
  the segments on their way are well cut.
* *Conversation.* `TypeOK` rests on `Underway`: a request has a job once it has
  arrived and is at step 1 until it reaches a tool. `ConsentGiven` is
  strengthened to `Consent`: nothing ran for a request whose job is not chosen yet,
  and what is asked is not blocked; with `AnswersStay`, an answer is never
  taken back. `PlanIsHonest` speaks of the past, so its invariant `Honest` says where a request
  stands: what is behind it has succeeded (`Behind`), what is ahead has no
  outcome (`Ahead`), the attempt at hand has one exactly when it is judged
  (`AtHand`). `IdleUnlessBroken` rests on `Shown`: the state is what the last
  event left, unless some request that will assign it is under way, and `PendingIsAsked` on
  `PendingExactly`, by which an orphaned question belongs to a request that has ended.
* *LLM router.* The stream: what was read stands in the queue behind what was received, and what
  the reader says at its end behind that (`Good`, lemmas over sequences); as long as the
  reader reads, there are only parts. The choice: providers are at most one revision behind, and
  what a call has read is at least as new as the change that was over when it began.
* *Supervision.* A component whose worker crashed is never good again (`Broken`), since
  no probe writes it, and only crashes end a supervisor while the runtime is up
  (`EndedByCrash`); so a dead worker is shown dead. The budget: windows do not overlap and an hour
  meets two of them at most, so it is enough to count the current window and the hour
  before it (`Accounted`); a window that turns makes the one the other.
* *Settings.* One process at most is at the file (`Alone`), the token of each
  process by its place (`TokenAt`), and the llm section the server has or is about
  to have (`Llm`); merging a change into the file and into memory is the same (`MergeTwice`).
* *Memory.* `Recall` is not inductive: a thread deletes rows one commit after another before it
  inserts its own, and another one may meanwhile have replaced the same rows. `NewestKept` says why
  nothing is lost: of what is known about a topic either the newest row, among the stored ones and
  the ones some thread has still to look at, is stored, or a thread that has nothing left to look at is about
  to insert. Rows are looked at in the order of their ids, so who deletes the newest row has
  none left, and inserts a newer one. `Scanned` makes ids in a stale list harmless: none of them is
  the id of another row. `Cached`: no embedding has an id that is still to be given, and since ids are
  never given twice, an embedding that outlives its row is compared with no other one
  (`ComparedByText`). `StartsRecover` rests on `Booting`: a copy of legacy
  episodes can fail only after their new table was made, so no later start copies.
* *Delivery.* An event on its way is the last of its publisher and has not been received where it
  is still to be sent (`Ordered`); without a crossing it is the last of all and carries the
  current state, and a client that shows another one is still to be served (`Fresh`).

Only model-checked is liveness (`ReadyTasksEnd`, `WaitingTasksEnd`, `TransientEnds`,
`SilenceComes`, `RequestsEnd`, `CallsEnd`, `WorkersComeBack`): fairness and `ENABLED` are out of
the prover's reach. Every invariant, safety property of actions and refinement that a run checks
is stated by a theorem.

## Where code and documents disagree

Met while modelling; the lines and quotations are in `PROJECT.json`, "findings".
No run is devoted to them: the models have the behaviour of the code, and the properties that
it limits say so in a condition.

* Tasks: a pause does not keep a queued task from starting, and a resume gives it
  two entries; so does a wake-up to a dependent that a loop is holding, and both may
  then be executed twice. Cognitive tasks are not recovered, for their factories are registered after
  recovery. Two CRITICAL tasks that wait for a NORMAL one keep both loops busy. Under
  `raphael server` a cancel inside a dispatch does not stop the worker.
* Voice: in private modes WAKE_LISTENING is shown with the microphone off; the command a barge-in
  interrupted closes the window the interrupt opened; FOCUS after SLEEP or PAUSE leaves the
  wake word off. Speech cannot be cancelled. In PAUSE and SLEEP a transcript with the wake phrase,
  which a client sent or the recogniser still had, is carried out; and under `raphael server` the
  detector may fire while set_mode is under way.
* Microphone: a stop that falls into a device change does not stop; a start after a
  failed stream leaks a monitor. Blocks are stamped when they are dispatched.
* Conversation: a request cancelled while its question is announced leaves the question behind;
  after a barge-in or a bare wake phrase LISTENING is shown until a request ends, in private modes
  too; after a failed LLM call the assistant stays in SPEAKING; confirmations are
  published under a name nobody listens to; on Python 3.12 an approval in the turn of the
  timer is reported as resolved and still refused.
* Supervision: a component that crashed once is in error for good, and the proactive
  engine with it; each maintenance task runs once; nothing checks that a worker makes
  progress; a runtime that failed to start is reported alive; the hourly budget has a fixed
  window, so an hour may have twice of it.
* Settings and memory: a fact that is being replaced is lost if a kill or an error of SQLite falls
  between its deletion and the insertion; the file is emptied before it is written; memory changes before the
  file is known to be writable; the migration of legacy episodes raises, and what it
  set aside stays aside; a weaker fact is stored beside the stronger; forgetting covers facts only; one
  table is declared twice.
* Router and clients: a response that ends before its last line, or with an error object, is
  returned as a whole answer; a provider the documents name does not exist; a state set while another
  is being sent may be overtaken by it.

## Limits

* One loop or two. runtime_launcher runs everything on one event loop, `raphael server` the gateway
  on a second one in a thread of its own. The models assume, where nothing else is said, that calls
  of the gateway act on the runtime's state between two awaits of its loop. What is modelled of the
  second thread: a cancel or pause inside a dispatch (TaskEngine), set_mode between any two of its
  assignments (VoiceControl), a change of the configuration beside a chat (LLMRouter), threads that
  store facts (Memory), states published by two threads (Delivery, `crossed`). What is not: a client
  at other statements of the engine, such as between the assignment of a status and its row or
  inside `_enqueue` and `_run_task`; two snapshots or an interrupt at the same statement
  (Supervision, VoiceControl: a handler reads the state and assigns it in one action); and that
  queues, futures and events of asyncio are not made for a second thread: an answer to a confirmation,
  a put into the queue or a cancel may not wake the loop that waits until something else does.
  `StoreMatchesMemory` and the other properties of `task_engine_full` hold with `Overtaken` among the
  steps, `OneDriver`, `HandleReachesWorker`, `ImplementsLifecycle` and the theorems under
  `Careful` only for callers on the loop of the engine.
* TaskEngine: set_pool_size (no callers), progress and checkpoint payloads,
  errors of SQLite itself, and interleavings within shutdown, which is one action. A row that was
  CREATED only and a task with an unknown priority are exempt from `NoLostTask`: the code loses them.
* VoiceControl sees the microphone as on, off and late frames; that MicCapture implements
  this view where no change races a stop is not stated. `_handle_command` of
  always_alive is left out: nothing reaches it. The assistant state that its handlers assign is in
  Conversation, which does not relate it to modes and audio state.
* MicCapture: queries of the devices are taken to be fast, so a monitor's join does not time out;
  when its thread identities are used up, no further capture starts.
* Listening: resampling, the energy threshold and the recognisers are a choice per block.
* Conversation: the content of intents, facts and answers, the audit log, the
  idle cycle of cognitive_runtime (it never passes an input to the reasoning), and tools the
  registry does not know, which the planner filters out. The OFFLINE of a shutdown is left out.
* LLMRouter: the two stream formats, so also whether a response that ended was complete; the
  endpoints that test a connection.
* Supervision: what a probe measures; snapshots from the gateway's thread suspend only at the probe;
  the bodies of maintenance tasks, which read and count.
* Settings: one section with two fields stands for all; defaults and environment are
  constants.
* Memory: episodes, procedures and preferences are single statements; confidences are
  levels; similarity is left out.
* Delivery: events other than states take the same way.
