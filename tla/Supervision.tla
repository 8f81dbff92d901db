---------------------------- MODULE Supervision ----------------------------
(***************************************************************************)
(* What keeps the runtime alive and decides when it may speak up: the      *)
(* watchdog and the health monitor of runtime/health_monitor.py, the       *)
(* proactive engine, the maintenance sweep of background_intelligence.py,  *)
(* and the start and stop of core/runtime.py and always_alive.py.          *)
(*                                                                         *)
(* All of it is taken to run on one event loop; an action is what a        *)
(* coroutine does between two awaits that suspend it.  The health map is   *)
(* what the parts share: the watchdog writes it, probes overwrite it, and  *)
(* the proactive engine acts only if every entry is good.  A status is     *)
(* reduced to that: whether is_healthy accepts it.  Probes, load and the   *)
(* database of open loops are read where the code reads them and may       *)
(* answer anything.                                                        *)
(***************************************************************************)
EXTENDS Integers, FiniteSets

CONSTANTS
  Workers,      \* registered with the watchdog: background_tasks, heartbeat
  Heartbeat,    \* the worker that takes health snapshots
  Component,    \* component_key of each worker
  Local,        \* components probed without suspending: memory, websocket
  Remote,       \* those probed after the LLM provider was asked: llm, voice
  Client,       \* GET /api/runtime/health takes a snapshot too
  Engine,       \* the proactive engine's own loop
  Cycle,        \* the perception loop, which evaluates after each observation
  Upkeep,       \* names of the maintenance tasks
  MaxRestarts,  \* max_restarts (10 in the code)
  MaxSpoken,    \* max_interruptions_per_hour
  Hour,         \* 3600 s in the unit of now
  Spacing,      \* 300 s
  Horizon       \* bound on time

Components == Local \cup Remote \cup {Component[w] : w \in Workers}
Observers == {Heartbeat, Client}
Callers == {Engine, Cycle}

ASSUME WorkerAssumption ==
  /\ Heartbeat \in Workers /\ Client \notin Workers /\ Engine # Cycle
  /\ \A w \in Workers : Component[w] \notin Local \cup Remote
  /\ \A v, w \in Workers : Component[v] = Component[w] => v = w
ASSUME NumberAssumption ==
  /\ MaxRestarts \in Nat \ {0} /\ MaxSpoken \in Nat
  /\ Hour \in Nat \ {0} /\ Spacing \in Nat \ {0} /\ Spacing <= Hour
  /\ Horizon \in Nat

VARIABLES
  life,       \* where the runtime is between start and stop
  wpc,        \* where the supervisor of each worker is
  restarts,   \* its count of crashes
  good,       \* per component: is_healthy accepts its status
  asking,     \* per observer: it waits for the LLM provider's answer
  cpc,        \* where the callers of evaluate_proactive_opportunity are
  paused,     \* background tasks are paused by the mode
  upkeep,     \* maintenance tasks the task manager has had
  now,
  start,      \* hour_window_start
  count,      \* proactive_count_this_hour
  last,       \* last_proactive_time
  spoken      \* kept for the properties: when suggestions were made

health == <<good, asking>>
watchdog == <<wpc, restarts>>
budget == <<start, count, last, spoken>>
vars == <<life, watchdog, health, cpc, paused, upkeep, now, budget>>

Loads == {"low", "reduced", "high"}

Init ==
  /\ life = "off"
  /\ wpc = [w \in Workers |-> "none"]
  /\ restarts = [w \in Workers |-> 0]
  /\ good = [c \in Components |-> FALSE]
  /\ asking = [o \in Observers |-> FALSE]
  /\ cpc = [c \in Callers |-> "off"]
  /\ paused = FALSE /\ upkeep = {}
  /\ now = 0 /\ start = 0 /\ count = 0
  /\ last = -Spacing   \* 0.0, long ago
  /\ spoken = {}

-----------------------------------------------------------------------------
(* Start and stop.                                                         *)

\* always_alive.start declares everything well before anything runs
Register ==
  /\ life = "off"
  /\ life' = "starting"
  /\ good' = [c \in Components |-> c \in Local \cup Remote \cup {Component[Heartbeat]}]
  /\ UNCHANGED <<watchdog, asking, cpc, paused, upkeep, now, budget>>

\* workers are registered and spawned, the engines and perception are started
Boot ==
  /\ life = "starting"
  /\ life' = "up"
  /\ good' = [c \in Components |-> good[c] \/ \E w \in Workers : Component[w] = c]
  /\ wpc' = [w \in Workers |-> "running"]
  /\ cpc' = [c \in Callers |-> "asleep"]
  /\ UNCHANGED <<restarts, asking, paused, upkeep, now, budget>>

\* an earlier phase raises: serve logs it and keeps the gateway without anything
\* behind it, whose snapshots still say that the runtime is alive
BootFails ==
  /\ life = "off"
  /\ life' = "half"
  /\ UNCHANGED <<watchdog, health, cpc, paused, upkeep, now, budget>>

\* RaphaelRuntime.stop up to the shutdown event: the supervisors and the
\* engine's loop are cancelled, the perception loop is not yet
Stop ==
  /\ life = "up"
  /\ life' = "stopping"
  /\ wpc' = [w \in Workers |-> "ended"]
  /\ asking' = [asking EXCEPT ![Heartbeat] = FALSE]
  /\ cpc' = [cpc EXCEPT ![Engine] = "off", ![Cycle] = IF @ = "asleep" THEN "off" ELSE @]
  /\ UNCHANGED <<restarts, good, paused, upkeep, now, budget>>

\* the event has been delivered; the perception loop is cancelled and awaited
Stopped ==
  /\ life = "stopping"
  /\ life' = "down"
  /\ cpc' = [cpc EXCEPT ![Cycle] = "off"]
  /\ UNCHANGED <<watchdog, health, paused, upkeep, now, budget>>

-----------------------------------------------------------------------------
(* Watchdog._supervise.                                                    *)

\* the worker raised: the crash is counted, shown, and published
Crash(w) ==
  /\ wpc[w] = "running"
  /\ restarts' = [restarts EXCEPT ![w] = @ + 1]
  /\ good' = [good EXCEPT ![Component[w]] = FALSE]
  /\ asking' = [o \in Observers |-> asking[o] /\ o # w]
  /\ wpc' = [wpc EXCEPT ![w] = "publishing"]
  /\ UNCHANGED <<life, cpc, paused, upkeep, now, budget>>

\* mutant: a worker that crashed is left alone
PublishedEnds(w) ==
  /\ wpc[w] = "publishing"
  /\ wpc' = [wpc EXCEPT ![w] = "ended"]
  /\ UNCHANGED <<life, restarts, good, asking, cpc, paused, upkeep, now, budget>>

\* after the last allowed restart the supervisor gives up
Published(w) ==
  /\ wpc[w] = "publishing"
  /\ wpc' = [wpc EXCEPT ![w] = IF restarts[w] >= MaxRestarts THEN "ended" ELSE "waiting"]
  /\ good' = [good EXCEPT ![Component[w]] = @ /\ restarts[w] < MaxRestarts]
  /\ UNCHANGED <<life, restarts, asking, cpc, paused, upkeep, now, budget>>

\* the worker runs again, and its component stays as the crash has left it
Respawn(w) ==
  /\ wpc[w] = "waiting"
  /\ wpc' = [wpc EXCEPT ![w] = "running"]
  /\ UNCHANGED <<life, restarts, health, cpc, paused, upkeep, now, budget>>

-----------------------------------------------------------------------------
(* RuntimeHealthMonitor.snapshot.                                          *)

\* the heartbeat worker, or a client, begins: probes that do not suspend
Ask(o) ==
  /\ ~asking[o]
  /\ IF o = Heartbeat THEN wpc[o] = "running" ELSE life # "off"
  /\ \E answer \in [Local -> BOOLEAN] :
       good' = [c \in Components |-> IF c \in Local THEN answer[c] ELSE good[c]]
  /\ asking' = [asking EXCEPT ![o] = TRUE]
  /\ UNCHANGED <<life, watchdog, cpc, paused, upkeep, now, budget>>

\* mutant: the state of the workers is derived from the snapshot being taken
AnswerForAll(o) ==
  /\ asking[o]
  /\ \E answer \in [Components -> BOOLEAN] : good' = answer
  /\ asking' = [asking EXCEPT ![o] = FALSE]
  /\ UNCHANGED <<life, watchdog, cpc, paused, upkeep, now, budget>>

Answer(o) ==
  /\ asking[o]
  /\ \E answer \in [Remote -> BOOLEAN] :
       good' = [c \in Components |-> IF c \in Remote THEN answer[c] ELSE good[c]]
  /\ asking' = [asking EXCEPT ![o] = FALSE]
  /\ UNCHANGED <<life, watchdog, cpc, paused, upkeep, now, budget>>

Healthy == \A c \in Components : good[c]

-----------------------------------------------------------------------------
(* The proactive engine.                                                   *)

\* ResourceManager.can_run of background work, for the load of this moment
CanRun(priority, load) ==
  /\ ~paused /\ load # "high"
  /\ priority = "IDLE" => load # "reduced"

\* the perception loop observes the environment, which suspends it
Observe ==
  /\ cpc[Cycle] = "asleep"
  /\ cpc' = [cpc EXCEPT ![Cycle] = "observing"]
  /\ UNCHANGED <<life, watchdog, health, paused, upkeep, now, budget>>

\* mutant: the window is over as soon as the spacing is
WindowShort == IF now - start >= Spacing THEN [start |-> now, count |-> 0]
               ELSE [start |-> start, count |-> count]

\* _check_budget: the window of an hour begins anew once it is over
Window == IF now - start > Hour THEN [start |-> now, count |-> 0]
          ELSE [start |-> start, count |-> count]

\* mutant: one too many
WithinBudgetAlmost == Window.count <= MaxSpoken

WithinBudget == Window.count < MaxSpoken

\* there is something to say, and it may be said
MaySpeak(load, loops) ==
  /\ WithinBudget /\ CanRun("LOW", load) /\ Healthy
  /\ loops /\ now - last >= Spacing

Ready(c) == cpc[c] = (IF c = Cycle THEN "observing" ELSE "asleep")

\* evaluate_proactive_opportunity: everything is decided and accounted for
\* before the suggestion is published
Evaluate(c) ==
  /\ Ready(c)
  /\ start' = Window.start
  /\ \E load \in Loads, loops \in BOOLEAN :
       IF MaySpeak(load, loops)
       THEN /\ last' = now /\ count' = Window.count + 1
            /\ spoken' = spoken \cup {now}
            /\ cpc' = [cpc EXCEPT ![c] = "publishing"]
       ELSE /\ count' = Window.count
            /\ cpc' = [cpc EXCEPT ![c] = IF life = "up" THEN "asleep" ELSE "off"]
            /\ UNCHANGED <<last, spoken>>
  /\ UNCHANGED <<life, watchdog, health, paused, upkeep, now>>

Delivered(c) ==
  /\ cpc[c] = "publishing"
  /\ cpc' = [cpc EXCEPT ![c] = IF life = "up" THEN "asleep" ELSE "off"]
  /\ UNCHANGED <<life, watchdog, health, paused, upkeep, now, budget>>

-----------------------------------------------------------------------------
\* _idle_loop: each maintenance task is created unless the task manager has
\* one of that name, finished or not
Sweep ==
  /\ life = "up"
  /\ \E load \in Loads : CanRun("IDLE", load)
  /\ upkeep' = Upkeep
  /\ UNCHANGED <<life, watchdog, health, cpc, paused, now, budget>>

\* set_mode: SLEEP and FOCUS pause background work, NORMAL resumes it
SetPaused ==
  /\ life \in {"up", "half"}
  /\ paused' = ~paused
  /\ UNCHANGED <<life, watchdog, health, cpc, upkeep, now, budget>>

Tick ==
  /\ now < Horizon
  /\ now' = now + 1
  /\ UNCHANGED <<life, watchdog, health, cpc, paused, upkeep, budget>>

LifeStep == Register \/ Boot \/ BootFails \/ Stop \/ Stopped

Next ==
  \/ LifeStep
  \/ \E w \in Workers : Crash(w) \/ Published(w) \/ Respawn(w)
  \/ \E o \in Observers : Ask(o) \/ Answer(o)
  \/ Observe
  \/ \E c \in Callers : Evaluate(c) \/ Delivered(c)
  \/ Sweep \/ SetPaused \/ Tick

Spec == Init /\ [][Next]_vars

\* The sleep of a supervisor ends, and so does a publication: a subscriber
\* that fails is logged, and a client that hangs is dropped by its transport.
FairSpec ==
  /\ Spec
  /\ \A w \in Workers : WF_vars(Published(w)) /\ WF_vars(Respawn(w))

-----------------------------------------------------------------------------
(* Properties.                                                             *)

\* Types of the variables; the count never exceeds the budget of a window.
TypeOK ==
  /\ life \in {"off", "starting", "up", "half", "stopping", "down"}
  /\ wpc \in [Workers -> {"none", "running", "publishing", "waiting", "ended"}]
  /\ restarts \in [Workers -> 0..MaxRestarts]
  /\ good \in [Components -> BOOLEAN] /\ asking \in [Observers -> BOOLEAN]
  /\ cpc \in [Callers -> {"off", "asleep", "observing", "publishing"}]
  /\ paused \in BOOLEAN /\ upkeep \subseteq Upkeep
  /\ now \in 0..Horizon /\ start \in 0..now /\ count \in 0..MaxSpoken
  /\ last \in -Spacing..now /\ spoken \subseteq 0..now

\* A worker the watchdog has given up is never shown as well, whatever
\* snapshots are taken by the heartbeat or by clients, before or after.
HonestHealth ==
  \A w \in Workers : life = "up" /\ wpc[w] = "ended" => ~good[Component[w]]

\* What the code guarantees of its budget, with two callers that share it:
\* suggestions are a spacing apart, so no moment has two, and an hour, wherever
\* it begins, has at most twice the budget.  It is not the strict hourly budget
\* the module and its setting speak of: windows are fixed, and an hour that spans
\* two of them may have the budget of both.
SlidingBudget ==
  /\ \A s, t \in spoken : s < t => t - s >= Spacing
  /\ \A s \in 0..Horizon :
       Cardinality({t \in spoken : s <= t /\ t < s + Hour}) <= 2 * MaxSpoken

\* A worker that crashed runs again, unless it has used up its restarts or the
\* runtime is stopped.
WorkersComeBack ==
  \A w \in Workers :
    wpc[w] \in {"publishing", "waiting"} ~>
      (wpc[w] = "running" \/ life # "up" \/ (wpc[w] = "ended" /\ restarts[w] = MaxRestarts))
=============================================================================
