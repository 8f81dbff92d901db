----------------------------- MODULE MicCapture -----------------------------
(***************************************************************************)
(* The microphone of voice/microphone.py and the choice and the watching   *)
(* of its device in voice/device_selector.py.                              *)
(*                                                                         *)
(* Three kinds of threads share MicrophoneSource without a lock: the event *)
(* loop, which calls start and stop (set_mode, controller start and stop), *)
(* the capture threads, and the hotswap monitors, whose callback replaces  *)
(* the capture thread.  An action is what a thread does up to its next     *)
(* access to what another one writes, or to its next wait.                 *)
(*                                                                         *)
(* A join has a timeout.  A capture thread that records looks at _running  *)
(* every 50 ms, so the join of one can only time out while it is still     *)
(* opening its stream, or when _running is true again.  A monitor sleeps   *)
(* for 5 s and is joined for 6 s; queries of the devices are taken to be   *)
(* fast, so that join does not time out.                                   *)
(***************************************************************************)
EXTENDS Naturals

CONSTANTS
  Devices,      \* input devices that may be plugged in
  Transport,    \* classify_transport of their names: 0 Bluetooth, 1 USB,
                \* 2 built in, 3 virtual, 4 unknown
  Index,        \* their position in the enumeration
  Default,      \* the system's default input device
  Preferred,    \* devices whose name matches config.voice.preferred_device
  Fallback,     \* the entry with index None: let the library choose
  None,         \* no device, no thread, no monitor
  Captures,     \* capture threads, numbered in the order of creation (a bound)
  Monitors,     \* hotswap monitors, numbered alike (a bound)
  MaxChanges,   \* bound on devices plugged in or out
  MaxFailures   \* bound on streams that cannot be opened

ASSUME DeviceAssumption ==
  /\ Transport \in [Devices -> 0..4]
  /\ Index \in [Devices -> Nat]
  /\ \A d, e \in Devices : Index[d] = Index[e] => d = e
  /\ Default \in Devices /\ Preferred \subseteq Devices
  /\ Fallback \notin Devices /\ None \notin Devices \cup {Fallback}
ASSUME ThreadAssumption ==
  /\ None \notin Captures /\ None \notin Monitors
  /\ Captures \subseteq Nat /\ Monitors \subseteq Nat
ASSUME MicBoundAssumption == MaxChanges \in Nat /\ MaxFailures \in Nat

VARIABLES
  plugged,   \* the devices that are there
  running,   \* MicrophoneSource._running
  thread,    \* _thread
  current,   \* _current_device
  monitor,   \* _hotswap_monitor
  lpc,       \* what the event loop is doing with the microphone
  joining,   \* the thread each joiner waits for: the loop under None, monitors
  cpc,       \* where each capture thread is
  source,    \* the device each capture thread has opened
  mpc,       \* where each monitor thread is
  watching,  \* DeviceHotswapMonitor._running of each monitor
  last,      \* _last_device of each monitor
  \* kept for the properties
  wanted,    \* what was called last: start or stop
  raced,     \* a device change was past its check when stop was called
  overrun,   \* a join has given up on a thread
  leaked,    \* start was called while a monitor was watching
  changes, failures  \* what was used of the bounds

source_ == <<running, thread, current, monitor>>
threads == <<cpc, source>>
watchers == <<mpc, watching, last>>
ghosts == <<wanted, raced, overrun, leaked>>
bounds == <<plugged, changes, failures>>
micVars == <<source_, lpc, joining, threads, watchers, ghosts, bounds>>

-----------------------------------------------------------------------------
(* DeviceSelector.                                                         *)

Virtual == 3
\* loopbacks are chosen only when there is nothing else
Candidates(present) ==
  LET real == {d \in present : Transport[d] # Virtual}
  IN  IF real = {} THEN present ELSE real

\* the system's default comes first among those of the best transport
Tier(present) ==
  LET best == {d \in Candidates(present) :
                 \A e \in Candidates(present) : Transport[d] <= Transport[e]}
  IN  IF Default \in best THEN {Default} ELSE best

\* the sort is stable: the first in the enumeration
First(devices) == CHOOSE d \in devices : \A e \in devices : Index[d] <= Index[e]

\* select_best_device, with the override from the configuration
Best(present) ==
  LET named == present \cap Preferred
  IN  IF present = {} THEN Fallback
      ELSE IF named # {} THEN First(named) ELSE First(Tier(present))

\* devices are compared by index and transport
SameDevice(d, e) ==
  \/ d = e
  \/ /\ {d, e} \subseteq Devices
     /\ Index[d] = Index[e] /\ Transport[d] = Transport[e]

-----------------------------------------------------------------------------
Alive(k) == cpc[k] \in {"opening", "recording"}
Watches(m) == mpc[m] \notin {"none", "ended"}

MicInit ==
  /\ plugged \in SUBSET Devices
  /\ running = FALSE /\ thread = None /\ current = None /\ monitor = None
  /\ lpc = "free"
  /\ joining = [j \in Monitors \cup {None} |-> None]
  /\ cpc = [k \in Captures |-> "none"]
  /\ source = [k \in Captures |-> None]
  /\ mpc = [m \in Monitors |-> "none"]
  /\ watching = [m \in Monitors |-> FALSE]
  /\ last = [m \in Monitors |-> None]
  /\ wanted = FALSE /\ raced = FALSE /\ overrun = FALSE /\ leaked = FALSE
  /\ changes = 0 /\ failures = 0

\* mutant: the thread is created but not started
SpawnUnstarted(k) ==
  /\ cpc[k] = "none" /\ \A j \in Captures : cpc[j] = "none" => k <= j
  /\ running' = TRUE /\ thread' = k
  /\ UNCHANGED cpc

\* Thread(target=_capture_loop).start(): it becomes _thread, whatever that was
Spawn(k) ==
  /\ cpc[k] = "none" /\ \A j \in Captures : cpc[j] = "none" => k <= j
  /\ running' = TRUE /\ thread' = k
  /\ cpc' = [cpc EXCEPT ![k] = "opening"]

\* what join returns to its caller: the thread has ended, or the time is up
JoinOver(k) ==
  k # None => cpc[k] \in {"ended", "opening"} \/ (cpc[k] = "recording" /\ running)

GaveUp(k) == k # None /\ Alive(k)

-----------------------------------------------------------------------------
(* The event loop.                                                         *)

\* start, up to the thread it starts
Start(k) ==
  /\ lpc = "free" /\ ~running
  /\ Spawn(k)
  /\ current' = Best(plugged)
  /\ lpc' = "starting" /\ wanted' = TRUE
  /\ leaked' = (leaked \/ \E m \in Monitors : Watches(m))
  /\ UNCHANGED <<monitor, joining, source, watchers, raced, overrun, bounds>>

\* start finds the microphone running and returns
StartAgain ==
  /\ lpc = "free" /\ running
  /\ wanted' = TRUE
  /\ UNCHANGED <<source_, lpc, joining, threads, watchers, raced, overrun, leaked, bounds>>

\* _start_hotswap_monitor: a new monitor, which selects the device once more
StartMonitor(m) ==
  /\ lpc = "starting"
  /\ mpc[m] = "none" /\ \A n \in Monitors : mpc[n] = "none" => m <= n
  /\ monitor' = m
  /\ mpc' = [mpc EXCEPT ![m] = "sleeping"]
  /\ watching' = [watching EXCEPT ![m] = TRUE]
  /\ last' = [last EXCEPT ![m] = Best(plugged)]
  /\ lpc' = "free"
  /\ UNCHANGED <<running, thread, current, joining, threads, ghosts, bounds>>

\* mutant: stop leaves the flag to the monitor
StopMonitorOnly ==
  /\ lpc = "free"
  /\ lpc' = "stopping" /\ wanted' = FALSE
  /\ raced' = \E m \in Monitors : mpc[m] \in {"clearing", "waiting"}
  /\ UNCHANGED <<source_, joining, threads, watchers, overrun, leaked, bounds>>

\* running is cleared before the monitor is told anything
Stop ==
  /\ lpc = "free"
  /\ running' = FALSE
  /\ lpc' = "stopping" /\ wanted' = FALSE
  /\ raced' = \E m \in Monitors : mpc[m] \in {"clearing", "waiting"}
  /\ UNCHANGED <<thread, current, monitor, joining, threads, watchers, overrun, leaked, bounds>>

\* the monitor is told to stop, if there is one
StopMonitor ==
  /\ lpc = "stopping"
  /\ watching' = [m \in Monitors |-> watching[m] /\ m # monitor]
  /\ lpc' = "joining monitor"
  /\ UNCHANGED <<source_, joining, threads, mpc, last, ghosts, bounds>>

\* it has ended; if the capture thread is alive it is joined
MonitorStopped ==
  /\ lpc = "joining monitor"
  /\ \A m \in Monitors : m = monitor => mpc[m] = "ended"
  /\ monitor' = None
  /\ joining' = [joining EXCEPT ![None] = thread]
  /\ lpc' = "joining capture"
  /\ UNCHANGED <<running, thread, current, threads, watchers, ghosts, bounds>>

Stopped ==
  /\ lpc = "joining capture" /\ JoinOver(joining[None])
  /\ thread' = None /\ current' = None
  /\ joining' = [joining EXCEPT ![None] = None]
  /\ overrun' = (overrun \/ GaveUp(joining[None]))
  /\ lpc' = "free"
  /\ UNCHANGED <<running, monitor, threads, watchers, wanted, raced, leaked, bounds>>

-----------------------------------------------------------------------------
(* Capture threads.                                                        *)

\* the stream is open on the device that is current by now
Open(k) ==
  /\ cpc[k] = "opening"
  /\ cpc' = [cpc EXCEPT ![k] = "recording"]
  /\ source' = [source EXCEPT ![k] = current]
  /\ UNCHANGED <<source_, lpc, joining, watchers, ghosts, bounds>>

\* It cannot be opened.  The thread clears the flag of whichever thread
\* captures now, and leaves its monitor.
Fail(k) ==
  /\ cpc[k] = "opening" /\ failures < MaxFailures
  /\ running' = FALSE
  /\ cpc' = [cpc EXCEPT ![k] = "ended"]
  /\ failures' = failures + 1
  /\ UNCHANGED <<thread, current, monitor, lpc, joining, source, watchers, ghosts, plugged, changes>>

Close(k) ==
  /\ cpc[k] = "recording" /\ ~running
  /\ cpc' = [cpc EXCEPT ![k] = "ended"]
  /\ UNCHANGED <<source_, lpc, joining, source, watchers, ghosts, bounds>>

-----------------------------------------------------------------------------
(* Hotswap monitors.                                                       *)

\* the best device is another one: _on_device_change is called
Notice(m) ==
  /\ mpc[m] = "sleeping" /\ watching[m]
  /\ ~SameDevice(Best(plugged), last[m])
  /\ last' = [last EXCEPT ![m] = Best(plugged)]
  /\ current' = Best(plugged)
  /\ mpc' = [mpc EXCEPT ![m] = "called"]
  /\ UNCHANGED <<running, thread, monitor, lpc, joining, threads, watching, ghosts, bounds>>

\* mutant: whether the microphone runs is not asked
CheckNothing(m) ==
  /\ mpc[m] = "called"
  /\ mpc' = [mpc EXCEPT ![m] = "clearing"]
  /\ UNCHANGED <<source_, lpc, joining, threads, watching, last, ghosts, bounds>>

\* was_running = self._running
CheckRunning(m) ==
  /\ mpc[m] = "called"
  /\ mpc' = [mpc EXCEPT ![m] = IF running THEN "clearing" ELSE "sleeping"]
  /\ UNCHANGED <<source_, lpc, joining, threads, watching, last, ghosts, bounds>>

\* the flag is cleared and the thread, if alive, is joined
StopCapture(m) ==
  /\ mpc[m] = "clearing"
  /\ running' = FALSE
  /\ joining' = [joining EXCEPT ![m] = thread]
  /\ mpc' = [mpc EXCEPT ![m] = "waiting"]
  /\ UNCHANGED <<thread, current, monitor, lpc, threads, watching, last, ghosts, bounds>>

\* mutant: the callback does not wait for the thread it replaces
RestartAtOnce(m, k) ==
  /\ mpc[m] = "waiting"
  /\ Spawn(k)
  /\ joining' = [joining EXCEPT ![m] = None]
  /\ mpc' = [mpc EXCEPT ![m] = "sleeping"]
  /\ UNCHANGED <<current, monitor, lpc, source, watching, last, ghosts, bounds>>

\* the capture goes on with a new thread, whatever was called meanwhile
Restart(m, k) ==
  /\ mpc[m] = "waiting" /\ JoinOver(joining[m])
  /\ Spawn(k)
  /\ overrun' = (overrun \/ GaveUp(joining[m]))
  /\ joining' = [joining EXCEPT ![m] = None]
  /\ mpc' = [mpc EXCEPT ![m] = "sleeping"]
  /\ UNCHANGED <<current, monitor, lpc, source, watching, last, wanted, raced, leaked, bounds>>

\* awake and told to stop
EndMonitor(m) ==
  /\ mpc[m] = "sleeping" /\ ~watching[m]
  /\ mpc' = [mpc EXCEPT ![m] = "ended"]
  /\ UNCHANGED <<source_, lpc, joining, threads, watching, last, ghosts, bounds>>

-----------------------------------------------------------------------------
\* a device is plugged in or out, a headset connects or leaves
Plug(d) ==
  /\ changes < MaxChanges
  /\ plugged' = IF d \in plugged THEN plugged \ {d} ELSE plugged \cup {d}
  /\ changes' = changes + 1
  /\ UNCHANGED <<source_, lpc, joining, threads, watchers, ghosts, failures>>

LoopStep ==
  \/ \E m \in Monitors : StartMonitor(m)
  \/ StopMonitor \/ MonitorStopped \/ Stopped

MonitorStep(m) ==
  \/ Notice(m) \/ CheckRunning(m) \/ StopCapture(m)
  \/ \E k \in Captures : Restart(m, k)
  \/ EndMonitor(m)

CaptureStep(k) == Open(k) \/ Fail(k) \/ Close(k)

MicNext ==
  \/ \E k \in Captures : Start(k)
  \/ StartAgain \/ Stop \/ LoopStep
  \/ \E m \in Monitors : MonitorStep(m)
  \/ \E k \in Captures : CaptureStep(k)
  \/ \E d \in Devices : Plug(d)

MicSpec == MicInit /\ [][MicNext]_micVars

\* Threads are scheduled, sleeps, joins and the opening of a stream end.
\* Nothing makes anybody call start or stop.
MicFairness ==
  /\ WF_micVars(LoopStep)
  /\ \A m \in Monitors : WF_micVars(MonitorStep(m))
  /\ \A k \in Captures : WF_micVars(CaptureStep(k))

MicFairSpec == MicSpec /\ MicFairness

-----------------------------------------------------------------------------
(* Properties.                                                             *)

Sources == Devices \cup {Fallback, None}

\* Types of the variables; what is recorded as the thread or the monitor has
\* been started.
MicTypeOK ==
  /\ plugged \subseteq Devices
  /\ running \in BOOLEAN /\ thread \in Captures \cup {None}
  /\ current \in Sources /\ monitor \in Monitors \cup {None}
  /\ lpc \in {"free", "starting", "stopping", "joining monitor", "joining capture"}
  /\ joining \in [Monitors \cup {None} -> Captures \cup {None}]
  /\ cpc \in [Captures -> {"none", "opening", "recording", "ended"}]
  /\ source \in [Captures -> Sources]
  /\ mpc \in [Monitors -> {"none", "sleeping", "called", "clearing", "waiting", "ended"}]
  /\ watching \in [Monitors -> BOOLEAN]
  /\ last \in [Monitors -> Sources]
  /\ wanted \in BOOLEAN /\ raced \in BOOLEAN /\ overrun \in BOOLEAN /\ leaked \in BOOLEAN
  /\ \A k \in Captures : thread = k => cpc[k] # "none"
  /\ \A m \in Monitors : monitor = m => mpc[m] # "none"
  /\ changes \in 0..MaxChanges /\ failures \in 0..MaxFailures

\* After stop() the capture is off until start() is called, provided no device
\* change was past its check of _running when stop() was called: streams that
\* open late or fail, monitors that are leaked, changes that are noticed
\* meanwhile do not switch it on.
CleanStopIsOff == ~wanted /\ ~raced => ~running

\* One capture thread at a time, through any number of device changes, starts
\* and stops, as long as no join has given up and no monitor was leaked.  A
\* start() that falls into a device change, and one after a stream that could
\* not be opened, both find the flag cleared and add a monitor to the one there.
OneCapture ==
  ~overrun /\ ~leaked => \A k, l \in Captures : Alive(k) /\ Alive(l) => k = l

\* After a clean stop every capture thread ends, also one that opens its stream
\* only then: the devices are given back.
SilenceComes ==
  (~wanted /\ ~raced) ~> (wanted \/ raced \/ \A k \in Captures : ~Alive(k))
=============================================================================
