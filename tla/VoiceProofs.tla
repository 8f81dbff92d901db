----------------------------- MODULE VoiceProofs -----------------------------
(* Theorems about the voice side, the three modules of what is heard and   *)
(* said: VoiceControl for any number of transcripts and barge-ins in       *)
(* flight, MicCapture for any number of threads, devices and changes,      *)
(* Listening for any timeouts and any delay of the event loop.             *)
EXTENDS VoiceControl, MicCapture, Listening, WellFoundedInduction, TLAPS

-----------------------------------------------------------------------------
(* The states of the assistant: VoiceControl.                              *)

\* Every step keeps the types.
LEMMA VoiceTypeStep == VoiceTypeOK /\ [VoiceNext]_voiceVars => VoiceTypeOK'
<1> SUFFICES ASSUME VoiceTypeOK, [VoiceNext]_voiceVars PROVE VoiceTypeOK'
  OBVIOUS
<1> USE FlagsAssumption DEF VoiceTypeOK, Modes, Transient, Resting, Speech, switches, switching
<1>1. ASSUME NEW m \in Modes, SetMode(m) PROVE VoiceTypeOK'
  BY <1>1 DEF SetMode
<1>2. CASE Drained
  BY <1>2, Zenon DEF Drained
<1>11. CASE WakeWord
  BY <1>11 DEF WakeWord
<1>7. CASE StopVoice
  <2>1. mic' = FALSE /\ late' \in BOOLEAN
    BY <1>7, Zenon DEF StopVoice, MicOff
  <2>2. /\ mode' = "EXIT" /\ alive' = FALSE
        /\ UNCHANGED <<asm, wwd, bgPaused, target, spc, hpc, ipc>>
    BY <1>7, Zenon DEF StopVoice
  <2> QED
    BY <2>1, <2>2
<1>8. CASE SwitchDetector
  <2>1. wwd' \in BOOLEAN
    <3>1. wwd' \in {FALSE, wwd, WakeWordOn}
      BY <1>8 DEF SwitchDetector, Private
    <3> QED
      BY <3>1, Zenon
  <2>2. bgPaused' \in BOOLEAN
    <3>1. bgPaused' \in {bgPaused, TRUE, FALSE}
      BY <1>8 DEF SwitchDetector
    <3> QED
      BY <3>1, Zenon
  <2>3. UNCHANGED <<mode, asm, mic, late, alive, target, hpc, ipc>> /\ spc' = "mic"
    BY <1>8, Zenon DEF SwitchDetector
  <2> QED
    BY <2>1, <2>2, <2>3
<1>9. CASE SwitchMic
  <2>1. mic' \in BOOLEAN /\ late' \in BOOLEAN
    <3>1. CASE target \in Private
      BY <1>9, <3>1, Zenon DEF SwitchMic, MicOff
    <3>2. CASE target \notin Private
      BY <1>9, <3>2, Zenon DEF SwitchMic, MicOn
    <3> QED
      BY <3>1, <3>2
  <2>2. UNCHANGED <<mode, asm, wwd, bgPaused, alive, target, hpc, ipc>> /\ spc' = "state"
    BY <1>9, Zenon DEF SwitchMic
  <2> QED
    BY <2>1, <2>2
<1>10. CASE SwitchState
  BY <1>10 DEF SwitchState
<1>3. ASSUME NEW h \in Handlers, Segment(h) \/ Transcript(h) PROVE VoiceTypeOK'
  BY <1>3 DEF Segment, Transcript
<1>4. ASSUME NEW h \in Handlers, HandlerStep(h) PROVE VoiceTypeOK'
  BY <1>4 DEF HandlerStep, Recognised, Acknowledge, Acknowledged, Understand, Ignore,
              Respond, Finish
<1>5. ASSUME NEW k \in BargeIns, Interrupt(k) \/ Listen(k) PROVE VoiceTypeOK'
  BY <1>5 DEF Interrupt, Listen
<1>6. CASE UNCHANGED voiceVars
  BY <1>6 DEF voiceVars
<1> QED
  BY <1>1, <1>2, <1>3, <1>4, <1>5, <1>6, <1>7, <1>8, <1>9, <1>10, <1>11 DEF VoiceNext

\* The types of the variables hold in every reachable state.
THEOREM VoiceTypes == VoiceSpec => []VoiceTypeOK
<1>1. VoiceInit => VoiceTypeOK
  BY FlagsAssumption DEF VoiceInit, VoiceTypeOK, Modes, Transient, Resting
<1>2. QED
  BY <1>1, VoiceTypeStep, PTL DEF VoiceSpec

-----------------------------------------------------------------------------
\* A step that assigns a resting state owes nothing, and one that leaves the
\* state alone must leave its owner alone too.
LEMMA OwnerStep ==
  ASSUME VoiceTypeOK, TransientOwned, [VoiceNext]_voiceVars
  PROVE  TransientOwned'
<1> USE DEF TransientOwned
<1>1. CASE asm' \in Resting
  BY <1>1 DEF Resting
<1>2. CASE StopVoice \/ Drained \/ UNCHANGED voiceVars
  BY <1>2 DEF StopVoice, Drained, voiceVars
<1>3. ASSUME NEW m \in Modes, SetMode(m) PROVE TransientOwned'
  BY <1>3 DEF SetMode
<1>9. CASE SwitchDetector \/ SwitchMic
  BY <1>9 DEF SwitchDetector, SwitchMic
<1>10. SwitchState => asm' \in Resting
  BY DEF SwitchState, Resting
<1>4. CASE WakeWord
  BY <1>4 DEF WakeWord
<1>5. ASSUME NEW h \in Handlers, Segment(h) \/ Transcript(h) PROVE TransientOwned'
  BY <1>5 DEF Segment, Transcript, VoiceTypeOK
<1>6. ASSUME NEW h \in Handlers, HandlerStep(h) PROVE TransientOwned'
  <2>1. CASE Recognised(h) \/ Acknowledged(h) \/ Ignore(h)
    BY <2>1 DEF Recognised, Acknowledged, Ignore, VoiceTypeOK
  <2>2. CASE Acknowledge(h) \/ Finish(h)
    BY <2>2 DEF Acknowledge, Finish
  <2>3. CASE Understand(h) \/ Respond(h)
    BY <2>3 DEF Understand, Respond, VoiceTypeOK
  <2>4. QED
    BY <1>6, <2>1, <2>2, <2>3 DEF HandlerStep
<1>7. ASSUME NEW k \in BargeIns, Interrupt(k) \/ Listen(k) PROVE TransientOwned'
  BY <1>7 DEF Interrupt, Listen, VoiceTypeOK
<1>8. QED
  BY <1>1, <1>2, <1>3, <1>4, <1>5, <1>6, <1>7, <1>9, <1>10 DEF VoiceNext

\* In every reachable state somebody will take the audio state out of each state
\* that is meant to pass.
THEOREM NeverStuck == VoiceSpec => []TransientOwned
<1>1. VoiceInit => TransientOwned
  BY DEF VoiceInit, TransientOwned
<1>2. QED
  BY <1>1, OwnerStep, VoiceTypes, PTL DEF VoiceSpec

-----------------------------------------------------------------------------
\* What makes the private modes deaf: as far as set_mode has come, the detector is
\* disabled, since stopping the microphone leaves frames to dispatch, and the
\* microphone is off.
PrivateOff ==
  mode \in Private =>
    /\ spc # "done" => mode = target
    /\ spc # "detector" => ~wwd
    /\ spc \in {"state", "done"} => ~mic

\* Only set_mode enables the detector or starts the microphone, and then the mode is
\* not private, or is no more.
LEMMA PrivateStep == PrivateOff /\ [VoiceNext]_voiceVars => PrivateOff'
<1> SUFFICES ASSUME PrivateOff, [VoiceNext]_voiceVars PROVE PrivateOff'
  OBVIOUS
<1> USE DEF PrivateOff, Private, switches, switching
<1>1. ASSUME NEW m \in Modes, SetMode(m) PROVE PrivateOff'
  BY <1>1 DEF SetMode
<1>2. CASE SwitchDetector \/ SwitchMic \/ SwitchState
  BY <1>2 DEF SwitchDetector, SwitchMic, SwitchState, MicOff, MicOn
<1>3. CASE StopVoice \/ Drained
  BY <1>3 DEF StopVoice, Drained
<1>4. CASE UNCHANGED <<switches, switching>>
  BY <1>4
<1>5. WakeWord => UNCHANGED <<switches, switching>>
  BY DEF WakeWord
<1>6. \A h \in Handlers : Segment(h) \/ Transcript(h) \/ HandlerStep(h) => UNCHANGED <<switches, switching>>
  BY DEF Segment, Transcript, HandlerStep, Recognised, Acknowledge, Acknowledged,
         Understand, Ignore, Respond, Finish
<1>7. \A k \in BargeIns : Interrupt(k) \/ Listen(k) => UNCHANGED <<switches, switching>>
  BY DEF Interrupt, Listen
<1>8. UNCHANGED voiceVars => UNCHANGED <<switches, switching>>
  BY DEF voiceVars
<1>9. QED
  BY <1>1, <1>2, <1>3, <1>4, <1>5, <1>6, <1>7, <1>8 DEF VoiceNext

\* Sound goes to the recogniser only from a microphone that is on, or was on when
\* it was heard.
LEMMA HeardByMicrophone ==
  ASSUME VoiceTypeOK, [VoiceNext]_voiceVars, ~mic, ~late
  PROVE  Recognising' \subseteq Recognising
<1> USE DEF Recognising
<1>1. CASE UNCHANGED hpc
  BY <1>1
<1>2. ASSUME NEW h \in Handlers, HandlerStep(h) \/ Transcript(h) PROVE Recognising' \subseteq Recognising
  BY <1>2 DEF HandlerStep, Recognised, Acknowledge, Acknowledged, Understand, Ignore, Respond,
              Finish, Transcript, Speech, VoiceTypeOK
<1>3. ASSUME NEW h \in Handlers PROVE ~Segment(h)
  BY DEF Segment
<1>4. \/ \E m \in Modes : SetMode(m)
      \/ SwitchDetector \/ SwitchMic \/ SwitchState \/ StopVoice \/ Drained \/ WakeWord
      \/ \E k \in BargeIns : Interrupt(k) \/ Listen(k)
      \/ UNCHANGED voiceVars
      => UNCHANGED hpc
  BY DEF SetMode, SwitchDetector, SwitchMic, SwitchState, StopVoice, Drained, WakeWord, Interrupt,
         Listen, voiceVars
<1> QED
  BY <1>1, <1>2, <1>3, <1>4 DEF VoiceNext

\* Once PAUSE or SLEEP is set the detector does not fire and, when the frames of
\* before are dispatched, nothing more that is heard reaches the recogniser.
THEOREM PrivacyKept == VoiceSpec => PrivateModesDeaf
<1>1. VoiceInit => PrivateOff
  BY DEF VoiceInit, PrivateOff, Private
<1>2. ASSUME VoiceTypeOK, PrivateOff, [VoiceNext]_voiceVars, mode \in Private, spc = "done"
      PROVE  Deaf
  <2>1. ~wwd /\ ~mic
    BY <1>2 DEF PrivateOff
  <2> QED
    BY <1>2, <2>1, HeardByMicrophone DEF WakeWord, Deaf
<1>3. VoiceTypeOK /\ PrivateOff /\ [VoiceNext]_voiceVars =>
        [spc = "done" /\ mode \in Private => Deaf]_voiceVars
  BY <1>2
<1> QED
  BY <1>1, <1>3, PrivateStep, VoiceTypes, PTL DEF VoiceSpec, PrivateModesDeaf

-----------------------------------------------------------------------------
(* The microphone: MicCapture.                                             *)

LEMMA NatLeast ==
  ASSUME NEW S \in SUBSET Nat, S # {}
  PROVE  \E x \in S : \A y \in S : x <= y
<1>1. PICK x \in S : \A y \in S : ~(<<y, x>> \in OpToRel(<, Nat))
  BY NatLessThanWellFounded, WFMin, Zenon
<1>2. ASSUME NEW y \in S, y < x PROVE FALSE
  <2>1. <<y, x>> \in Nat \X Nat /\ <<y, x>>[1] < <<y, x>>[2]
    BY <1>2
  <2>2. QED
    BY <1>1, <2>1, Zenon DEF OpToRel
<1>3. QED
  BY <1>2, SMT

\* The first of some devices is one of them.
LEMMA FirstIsFirst ==
  ASSUME NEW S \in SUBSET Devices, S # {}
  PROVE  First(S) \in S /\ \A e \in S : Index[First(S)] <= Index[e]
<1> DEFINE positions == {Index[d] : d \in S}
<1>1. positions \in SUBSET Nat /\ positions # {}
  BY DeviceAssumption
<1>2. PICK x \in positions : \A y \in positions : x <= y
  BY <1>1, NatLeast
<1>3. PICK d \in S : x = Index[d]
  BY <1>2
<1>4. \A e \in S : Index[d] <= Index[e]
  BY <1>2, <1>3
<1>5. QED
  BY <1>4 DEF First

\* Among devices of which none was asked for by name, the selector takes one of
\* the highest transport, and no loopback unless there is nothing else.
THEOREM SelectionSound ==
  ASSUME NEW S \in SUBSET Devices, S # {}
  PROVE  /\ Best(S) \in S
         /\ S \cap Preferred # {} => Best(S) \in Preferred
         /\ S \cap Preferred = {} =>
              \A e \in S : Transport[e] # Virtual =>
                 Transport[Best(S)] <= Transport[e] /\ Transport[Best(S)] # Virtual
<1>1. CASE S \cap Preferred # {}
  BY <1>1, FirstIsFirst DEF Best
<1>2. CASE S \cap Preferred = {}
  <2> DEFINE pool == Candidates(S)
             ranks == {Transport[d] : d \in pool}
             best == {d \in pool : \A e \in pool : Transport[d] <= Transport[e]}
  <2>1. pool \in SUBSET S /\ pool # {}
    BY DEF Candidates
  <2>2. ranks \in SUBSET Nat /\ ranks # {}
    BY <2>1, DeviceAssumption
  <2>3. PICK x \in ranks : \A y \in ranks : x <= y
    BY <2>2, NatLeast
  <2>4. best # {}
    BY <2>3
  <2>5. Tier(S) \in SUBSET best /\ Tier(S) # {}
    BY <2>4 DEF Tier
  <2>6. Best(S) = First(Tier(S)) /\ Best(S) \in best
    BY <1>2, <2>1, <2>5, FirstIsFirst DEF Best
  <2>7. ASSUME NEW e \in S, Transport[e] # Virtual
        PROVE  Transport[Best(S)] <= Transport[e] /\ Transport[Best(S)] # Virtual
    BY <2>6, <2>7 DEF Candidates
  <2>8. QED
    BY <1>2, <2>1, <2>6, <2>7
<1>3. QED
  BY <1>1, <1>2

LEMMA BestIsSource == ASSUME MicTypeOK PROVE Best(plugged) \in Sources
<1>1. CASE plugged = {}
  BY <1>1 DEF Best, Sources
<1>2. CASE plugged # {}
  BY <1>2, SelectionSound DEF MicTypeOK, Sources
<1>3. QED
  BY <1>1, <1>2

-----------------------------------------------------------------------------
LEMMA OneMore ==
  /\ 0 \in 0..MaxChanges /\ 0 \in 0..MaxFailures
  /\ \A n \in 0..MaxChanges : n < MaxChanges => n + 1 \in 0..MaxChanges
  /\ \A n \in 0..MaxFailures : n < MaxFailures => n + 1 \in 0..MaxFailures
BY MicBoundAssumption

\* Every step keeps the types.
LEMMA MicTypeStep == MicTypeOK /\ [MicNext]_micVars => MicTypeOK'
<1> SUFFICES ASSUME MicTypeOK, [MicNext]_micVars PROVE MicTypeOK'
  OBVIOUS
<1> USE ThreadAssumption, MicBoundAssumption
    DEF MicTypeOK, source_, threads, watchers, ghosts, bounds
<1>1. ASSUME NEW k \in Captures, Start(k) PROVE MicTypeOK'
  BY <1>1, BestIsSource DEF Start, Spawn
<1>2. CASE StartAgain \/ Stop
  BY <1>2 DEF StartAgain, Stop
<1>3. ASSUME NEW m \in Monitors, StartMonitor(m) PROVE MicTypeOK'
  BY <1>3, BestIsSource DEF StartMonitor
<1>4. CASE StopMonitor
  BY <1>4 DEF StopMonitor
<1>5. CASE MonitorStopped
  BY <1>5 DEF MonitorStopped
<1>6. CASE Stopped
  BY <1>6 DEF Stopped, Sources, GaveUp
<1>7. ASSUME NEW m \in Monitors, MonitorStep(m) PROVE MicTypeOK'
  <2>1. CASE Notice(m)
    BY <2>1, BestIsSource DEF Notice
  <2>2. CASE CheckRunning(m)
    BY <2>2 DEF CheckRunning
  <2>3. CASE StopCapture(m)
    BY <2>3 DEF StopCapture
  <2>4. CASE EndMonitor(m)
    BY <2>4 DEF EndMonitor
  <2>5. ASSUME NEW k \in Captures, Restart(m, k) PROVE MicTypeOK'
    BY <2>5 DEF Restart, Spawn, GaveUp
  <2>6. QED
    BY <1>7, <2>1, <2>2, <2>3, <2>4, <2>5 DEF MonitorStep
<1>8. ASSUME NEW k \in Captures, CaptureStep(k) PROVE MicTypeOK'
  <2>1. CASE Open(k)
    BY <2>1 DEF Open
  <2>2. CASE Fail(k)
    BY <2>2, OneMore DEF Fail
  <2>3. CASE Close(k)
    BY <2>3 DEF Close
  <2>4. QED
    BY <1>8, <2>1, <2>2, <2>3 DEF CaptureStep
<1>9. ASSUME NEW d \in Devices, Plug(d) PROVE MicTypeOK'
  <2>1. plugged' \subseteq Devices
    BY <1>9 DEF Plug
  <2>2. changes' \in 0..MaxChanges
    BY <1>9, OneMore DEF Plug
  <2>3. QED
    BY <1>9, <2>1, <2>2 DEF Plug
<1>10. CASE UNCHANGED micVars
  BY <1>10 DEF micVars
<1>11. QED
  BY <1>1, <1>2, <1>3, <1>4, <1>5, <1>6, <1>7, <1>8, <1>9, <1>10 DEF MicNext, LoopStep

\* The types of the variables hold in every reachable state.
THEOREM MicTypes == MicSpec => []MicTypeOK
<1>1. MicInit => MicTypeOK
  BY ThreadAssumption, OneMore DEF MicInit, MicTypeOK, Sources
<1>2. QED
  BY <1>1, MicTypeStep, PTL DEF MicSpec

-----------------------------------------------------------------------------
\* What keeps the capture off after a stop that no device change overlaps:
\* monitors pass their check only while the capture runs.
OffStays ==
  ~wanted /\ ~raced => /\ ~running
                       /\ \A m \in Monitors : mpc[m] \notin {"clearing", "waiting"}
                       /\ lpc # "starting"

LEMMA OffStep == MicTypeOK /\ OffStays /\ [MicNext]_micVars => OffStays'
<1> SUFFICES ASSUME MicTypeOK, OffStays, [MicNext]_micVars PROVE OffStays'
  OBVIOUS
<1> USE DEF OffStays, source_, threads, watchers, ghosts, bounds
<1>1. ASSUME NEW k \in Captures, Start(k) PROVE OffStays'
  BY <1>1 DEF Start
<1>2. CASE StartAgain \/ Stop
  BY <1>2 DEF StartAgain, Stop
<1>3. ASSUME NEW m \in Monitors, StartMonitor(m) PROVE OffStays'
  BY <1>3 DEF StartMonitor
<1>4. CASE StopMonitor \/ MonitorStopped \/ Stopped
  BY <1>4 DEF StopMonitor, MonitorStopped, Stopped
<1>5. ASSUME NEW m \in Monitors, MonitorStep(m) PROVE OffStays'
  <2>1. CASE Notice(m) \/ CheckRunning(m) \/ EndMonitor(m)
    BY <2>1 DEF Notice, CheckRunning, EndMonitor, MicTypeOK
  <2>2. CASE StopCapture(m)
    BY <2>2 DEF StopCapture
  <2>3. ASSUME NEW k \in Captures, Restart(m, k) PROVE OffStays'
    BY <2>3 DEF Restart
  <2>4. QED
    BY <1>5, <2>1, <2>2, <2>3 DEF MonitorStep
<1>6. ASSUME NEW k \in Captures, CaptureStep(k) PROVE OffStays'
  BY <1>6 DEF CaptureStep, Open, Fail, Close
<1>7. CASE (\E d \in Devices : Plug(d)) \/ UNCHANGED micVars
  BY <1>7 DEF Plug, micVars
<1>8. QED
  BY <1>1, <1>2, <1>3, <1>4, <1>5, <1>6, <1>7 DEF MicNext, LoopStep

\* The capture is off after a stop() that no device change overlapped.
THEOREM OffIsOff == MicSpec => []CleanStopIsOff
<1>1. MicInit => OffStays
  BY DEF MicInit, OffStays
<1>2. OffStays => CleanStopIsOff
  BY DEF OffStays, CleanStopIsOff
<1>3. QED
  BY <1>1, <1>2, OffStep, MicTypes, PTL DEF MicSpec

-----------------------------------------------------------------------------
\* The accounts of the capture thread while nothing has gone wrong: it is the one
\* recorded, whoever replaces it waits for it, one monitor watches, except
\* while it is being started or after it was joined, and nothing captures
\* when nobody watches.
Accounts ==
  /\ \A k \in Captures : Alive(k) => k = thread
  /\ \A m \in Monitors : Watches(m) => m = monitor
  /\ \A m \in Monitors : mpc[m] = "waiting" => joining[m] = thread
  /\ \A m \in Monitors : Watches(m) /\ ~watching[m] => lpc = "joining monitor"
  /\ lpc \in {"starting", "joining capture"} => \A m \in Monitors : ~Watches(m)
  /\ lpc = "joining capture" => joining[None] = thread
  /\ lpc = "free" /\ (\A m \in Monitors : ~Watches(m)) => \A k \in Captures : ~Alive(k)

Sole == ~overrun /\ ~leaked => Accounts

\* What has gone wrong stays so.
LEMMA Latches == [MicNext]_micVars => (overrun => overrun') /\ (leaked => leaked')
<1> DEFINE Kept == (overrun => overrun') /\ (leaked => leaked')
<1> USE DEF ghosts
<1>1. ASSUME NEW k \in Captures, Start(k) PROVE Kept
  BY <1>1 DEF Start
<1>2. CASE StartAgain \/ Stop
  BY <1>2 DEF StartAgain, Stop
<1>3. CASE LoopStep
  <2>1. CASE Stopped
    BY <2>1 DEF Stopped
  <2>2. CASE StopMonitor \/ MonitorStopped \/ \E m \in Monitors : StartMonitor(m)
    BY <2>2 DEF StopMonitor, MonitorStopped, StartMonitor
  <2>3. QED
    BY <1>3, <2>1, <2>2 DEF LoopStep
<1>4. ASSUME NEW m \in Monitors, MonitorStep(m) PROVE Kept
  <2>1. CASE Notice(m) \/ CheckRunning(m) \/ StopCapture(m) \/ EndMonitor(m)
    BY <2>1 DEF Notice, CheckRunning, StopCapture, EndMonitor
  <2>2. ASSUME NEW k \in Captures, Restart(m, k) PROVE Kept
    <3>1. leaked' = leaked /\ overrun' = (overrun \/ GaveUp(joining[m]))
      BY <2>2 DEF Restart
    <3>2. QED
      BY <3>1, Zenon
  <2>3. QED
    BY <1>4, <2>1, <2>2 DEF MonitorStep
<1>5. ASSUME NEW k \in Captures, CaptureStep(k) PROVE Kept
  BY <1>5 DEF CaptureStep, Open, Fail, Close
<1>6. CASE (\E d \in Devices : Plug(d)) \/ UNCHANGED micVars
  BY <1>6 DEF Plug, micVars
<1>7. QED
  BY <1>1, <1>2, <1>3, <1>4, <1>5, <1>6 DEF MicNext

LEMMA SoleStep == MicTypeOK /\ Sole /\ [MicNext]_micVars => Sole'
<1> SUFFICES ASSUME MicTypeOK, Sole, [MicNext]_micVars, ~overrun', ~leaked' PROVE Accounts'
  BY DEF Sole
<1> USE ThreadAssumption DEF source_, threads, watchers, ghosts, bounds, Alive, Watches
<1>0. ~overrun /\ ~leaked
  BY Latches
<1>a. Accounts
  BY <1>0 DEF Sole
<1>1. ASSUME NEW k \in Captures, Start(k) PROVE Accounts'
  BY <1>1, <1>a DEF Start, Spawn, Accounts, MicTypeOK
<1>2. CASE StartAgain \/ Stop
  BY <1>2, <1>a DEF StartAgain, Stop, Accounts
<1>3. ASSUME NEW m \in Monitors, StartMonitor(m) PROVE Accounts'
  BY <1>3, <1>a DEF StartMonitor, Accounts, MicTypeOK
<1>4. CASE StopMonitor
  BY <1>4, <1>a DEF StopMonitor, Accounts, MicTypeOK
<1>5. CASE MonitorStopped
  BY <1>5, <1>a DEF MonitorStopped, Accounts, MicTypeOK
<1>6. CASE Stopped
  BY <1>6, <1>a DEF Stopped, GaveUp, Accounts, MicTypeOK
<1>7. ASSUME NEW m \in Monitors, MonitorStep(m) PROVE Accounts'
  <2>1. CASE Notice(m)
    BY <2>1, <1>a DEF Notice, Accounts, MicTypeOK
  <2>2. CASE CheckRunning(m)
    BY <2>2, <1>a DEF CheckRunning, Accounts, MicTypeOK
  <2>3. CASE StopCapture(m)
    BY <2>3, <1>a DEF StopCapture, Accounts, MicTypeOK
  <2>4. CASE EndMonitor(m)
    BY <2>4, <1>a DEF EndMonitor, Accounts, MicTypeOK
  <2>5. ASSUME NEW k \in Captures, Restart(m, k) PROVE Accounts'
    BY <2>5, <1>a DEF Restart, Spawn, GaveUp, Accounts, MicTypeOK
  <2>6. QED
    BY <1>7, <2>1, <2>2, <2>3, <2>4, <2>5 DEF MonitorStep
<1>8. ASSUME NEW k \in Captures, CaptureStep(k) PROVE Accounts'
  BY <1>8, <1>a DEF CaptureStep, Open, Fail, Close, Accounts, MicTypeOK
<1>9. CASE (\E d \in Devices : Plug(d)) \/ UNCHANGED micVars
  BY <1>9, <1>a DEF Plug, micVars, Accounts
<1>10. QED
  BY <1>1, <1>2, <1>3, <1>4, <1>5, <1>6, <1>7, <1>8, <1>9 DEF MicNext, LoopStep

\* No two capture threads are alive while no join has given up and no monitor
\* was leaked.
THEOREM CaptureIsSole == MicSpec => []OneCapture
<1>1. MicInit => Sole
  BY DEF MicInit, Sole, Accounts, Alive, Watches
<1>2. Sole => OneCapture
  BY DEF Sole, Accounts, OneCapture
<1>3. QED
  BY <1>1, <1>2, SoleStep, MicTypes, PTL DEF MicSpec
-----------------------------------------------------------------------------
(* From the microphone to the recogniser: Listening.                       *)

Calls == [kind : {"block"}, at : Nat] \cup [kind : {"segment", "recognition"}, blocks : Seq(Nat)]

ListeningTypes ==
  /\ now \in Nat /\ spoken \subseteq Nat
  /\ ready \in Seq(Calls) /\ buf \in Seq(Nat) /\ calls \in Seq(Seq(Nat))
  /\ start \in Nat /\ lastSpeech \in Nat

LEMMA TailOf ==
  ASSUME NEW S, NEW q \in Seq(S), q # <<>>
  PROVE  /\ Len(q) \in Nat \ {0} /\ Head(q) = q[1] /\ q[1] \in S
         /\ Tail(q) \in Seq(S) /\ Len(Tail(q)) = Len(q) - 1
         /\ \A k \in 1 .. Len(q) - 1 : Tail(q)[k] = q[k + 1]
OBVIOUS

LEMMA AppendOf ==
  ASSUME NEW S, NEW q \in Seq(S), NEW x \in S
  PROVE  /\ Append(q, x) \in Seq(S) /\ Len(q) \in Nat /\ Len(Append(q, x)) = Len(q) + 1
         /\ \A k \in 1 .. Len(q) : Append(q, x)[k] = q[k]
         /\ Append(q, x)[Len(q) + 1] = x
OBVIOUS

\* The callback at the head of the queue, by its kind.
LEMMA HeadOf ==
  ASSUME ListeningTypes, ready # <<>>
  PROVE  /\ ready[1] = Head(ready)
         /\ Comes("block") => Dispatched \in Nat /\ Dispatched = ready[1].at
         /\ ~Comes("block") => Head(ready).blocks \in Seq(Nat)
<1>1. ready \in Seq(Calls)
  BY DEF ListeningTypes
<1>2. Head(ready) = ready[1] /\ ready[1] \in Calls
  BY <1>1, TailOf
<1>3. ready[1].kind = "block" => ready[1].at \in Nat
  BY <1>2 DEF Calls
<1>4. ready[1].kind # "block" => ready[1].blocks \in Seq(Nat)
  BY <1>2 DEF Calls
<1> QED
  BY <1>2, <1>3, <1>4 DEF Comes, Dispatched

LEMMA ListeningTypesNext ==
  ASSUME ListeningTypes, [ListeningNext]_listeningVars
  PROVE  ListeningTypes'
<1> USE DEF ListeningTypes
<1>1. ASSUME NEW s \in Seq(Nat)
      PROVE  SegmentCall(s) \in Calls /\ RecognitionCall(s) \in Calls
  BY DEF SegmentCall, RecognitionCall, Calls
<1>2. \A c \in Calls : Append(ready, c) \in Seq(Calls)
  BY AppendOf
<1>3. ready # <<>> => Tail(ready) \in Seq(Calls) /\ \A c \in Calls : Append(Tail(ready), c) \in Seq(Calls)
  BY TailOf, AppendOf
<1>4. CASE CaptureOn
  <2>1. <<>> \in Seq(Nat)
    OBVIOUS
  <2> QED
    BY <1>4, <2>1 DEF CaptureOn
<1>5. CASE CaptureOff \/ (\E b \in BOOLEAN : SetListening(b)) \/ UNCHANGED listeningVars
  BY <1>5 DEF CaptureOff, SetListening, listeningVars, buffer, past
<1>6. ASSUME NEW b \in BOOLEAN, Capture(b) PROVE ListeningTypes'
  <2>1. now' = now + 1 /\ UNCHANGED <<buf, start, lastSpeech, calls>>
    BY <1>6 DEF Capture, buffer, past
  <2>2. spoken' = spoken \/ spoken' = spoken \cup {now'}
    BY <1>6 DEF Capture
  <2>3. BlockCall(now') \in Calls
    BY <2>1 DEF BlockCall, Calls
  <2>4. ready' \in Seq(Calls)
    BY <1>2, <1>6, <2>3 DEF Capture
  <2>5. now' \in Nat
    BY <2>1
  <2>6. ASSUME NEW x \in spoken' PROVE x \in Nat
    BY <2>2, <2>5, <2>6
  <2> QED
    BY <2>1, <2>4, <2>5, <2>6
<1>7. CASE IgnoreBlock
  BY <1>3, <1>7 DEF IgnoreBlock, Comes, buffer, past
<1>8. CASE Begin \/ Continue
  <2>1. ready # <<>> /\ Comes("block") /\ ready' = Tail(ready)
    BY <1>8 DEF Begin, Continue, Hearing, Comes
  <2>2. Dispatched \in Nat
    BY <2>1, HeadOf
  <2>3. <<Dispatched>> \in Seq(Nat) /\ Append(buf, Dispatched) \in Seq(Nat)
    BY <2>2, AppendOf
  <2> QED
    BY <1>3, <1>8, <2>1, <2>3 DEF Begin, Continue, SpeechTime
<1>9. CASE End
  <2>1. ready # <<>> /\ Comes("block") /\ ready' = Append(Tail(ready), SegmentCall(Append(buf, Dispatched)))
    BY <1>9 DEF End, Hearing, Comes
  <2>2. Dispatched \in Nat
    BY <2>1, HeadOf
  <2>3. Append(buf, Dispatched) \in Seq(Nat) /\ <<>> \in Seq(Nat)
    BY <2>2, AppendOf
  <2> QED
    BY <1>1, <1>3, <1>9, <2>1, <2>3 DEF End
<1>10. CASE OnSegment
  <2>1. ready # <<>> /\ ~Comes("block")
    BY <1>10 DEF OnSegment, Comes
  <2>2. Head(ready).blocks \in Seq(Nat)
    BY <2>1, HeadOf
  <2> QED
    BY <1>1, <1>3, <1>10, <2>1, <2>2 DEF OnSegment, buffer, past
<1>11. CASE Transcribe
  <2>1. ready # <<>> /\ ~Comes("block")
    BY <1>11 DEF Transcribe, Comes
  <2>2. Head(ready).blocks \in Seq(Nat)
    BY <2>1, HeadOf
  <2>3. calls' \in Seq(Seq(Nat))
    BY <1>11, <2>2, AppendOf DEF Transcribe, Recognise
  <2> QED
    BY <1>3, <1>11, <2>1, <2>3 DEF Transcribe, buffer
<1> QED
  BY <1>4, <1>5, <1>6, <1>7, <1>8, <1>9, <1>10, <1>11 DEF ListeningNext

\* Block a is at place <<s, k, i>>: it is the i-th of the k-th piece of stage s.  A
\* block that waits in the queue of the loop is a piece of a last stage.
Places == (1 .. 5) \X Nat \X Nat
Holds(c, s, i, a) ==
  \/ s = 2 /\ c.kind = "recognition" /\ i \in 1 .. Len(c.blocks) /\ a = c.blocks[i]
  \/ s = 3 /\ c.kind = "segment" /\ i \in 1 .. Len(c.blocks) /\ a = c.blocks[i]
  \/ s = 5 /\ c.kind = "block" /\ i = 1 /\ a = c.at
At(p, a) ==
  \/ /\ p[1] = 1 /\ p[2] \in 1 .. Len(calls)
     /\ p[3] \in 1 .. Len(calls[p[2]]) /\ a = calls[p[2]][p[3]]
  \/ p[2] \in 1 .. Len(ready) /\ Holds(ready[p[2]], p[1], p[3], a)
  \/ p[1] = 4 /\ p[2] = 0 /\ p[3] \in 1 .. Len(buf) /\ a = buf[p[3]]

Earlier(p, q) ==
  p[1] < q[1] \/ (p[1] = q[1] /\ (p[2] < q[2] \/ (p[2] = q[2] /\ p[3] < q[3])))

\* The blocks are in the order of their capture wherever they are.
InOrder ==
  \A p, q \in Places, a, b \in Nat : At(p, a) /\ At(q, b) /\ Earlier(p, q) => a < b

InPast == \A p \in Places, a \in Nat : At(p, a) => a <= now

Held(a) == \E p \in Places : p[1] # 5 /\ At(p, a)
NoneLost == \A a \in heard : a \in Nat /\ (a \in discarded \/ Held(a))

LineInv == InOrder /\ InPast /\ NoneLost

LEMMA PlaceOf ==
  ASSUME NEW s \in 1 .. 5, NEW k \in Nat, NEW i \in Nat
  PROVE  <<s, k, i>> \in Places /\ <<s, k, i>>[1] = s /\ <<s, k, i>>[2] = k /\ <<s, k, i>>[3] = i
BY DEF Places

\* Blocks that only move, and keep their order, are in order afterwards.
LEMMA Carried ==
  ASSUME LineInv, now' \in Nat, now \in Nat, now <= now', NEW M \in [Places -> Places],
         \A p \in Places, a \in Nat : At(p, a)' => At(M[p], a),
         \A p, q \in Places, a, b \in Nat :
           At(p, a)' /\ At(q, b)' /\ Earlier(p, q) => Earlier(M[p], M[q])
  PROVE  InOrder' /\ InPast'
<1>1. ASSUME NEW p \in Places, NEW q \in Places, NEW a \in Nat, NEW b \in Nat,
             At(p, a)', At(q, b)', Earlier(p, q)
      PROVE  a < b
  <2>1. At(M[p], a) /\ At(M[q], b) /\ Earlier(M[p], M[q]) /\ M[p] \in Places /\ M[q] \in Places
    BY <1>1
  <2> QED
    BY <2>1 DEF LineInv, InOrder
<1>2. InOrder'
  BY <1>1 DEF InOrder, Earlier
<1>3. ASSUME NEW p \in Places, NEW a \in Nat, At(p, a)' PROVE a <= now'
  <2>1. At(M[p], a) /\ M[p] \in Places
    BY <1>3
  <2>2. a <= now
    BY <2>1 DEF LineInv, InPast
  <2> QED
    BY <2>2
<1>4. InPast'
  BY <1>3 DEF InPast
<1> QED
  BY <1>2, <1>4

\* The callback at the head of the queue is gone.
LEMMA Dequeued ==
  ASSUME ListeningTypes, ready # <<>>, ready' = Tail(ready)
  PROVE  /\ Len(ready) \in Nat \ {0} /\ Len(ready') = Len(ready) - 1
         /\ \A k \in 1 .. Len(ready) - 1 : ready'[k] = ready[k + 1]
BY TailOf DEF ListeningTypes

\* The callback at the head of the queue is gone and another one is at its end.
LEMMA Replaced ==
  ASSUME ListeningTypes, ready # <<>>, NEW c \in Calls, ready' = Append(Tail(ready), c)
  PROVE  /\ Len(ready) \in Nat \ {0} /\ Len(ready') = Len(ready)
         /\ \A k \in 1 .. Len(ready) - 1 : ready'[k] = ready[k + 1]
         /\ ready'[Len(ready)] = c
<1>1. /\ Len(ready) \in Nat \ {0} /\ Tail(ready) \in Seq(Calls) /\ Len(Tail(ready)) = Len(ready) - 1
      /\ \A k \in 1 .. Len(ready) - 1 : Tail(ready)[k] = ready[k + 1]
  BY TailOf DEF ListeningTypes
<1>2. /\ Len(ready') = Len(Tail(ready)) + 1
      /\ \A k \in 1 .. Len(Tail(ready)) : ready'[k] = Tail(ready)[k]
      /\ ready'[Len(Tail(ready)) + 1] = c
  BY <1>1, AppendOf
<1> QED
  BY <1>1, <1>2

\* Where a place of a waiting callback was before the head of the queue went.
Was(p) == IF p[1] \in {1, 4} THEN p ELSE <<p[1], p[2] + 1, p[3]>>

LEMMA WasOrdered ==
  ASSUME NEW p \in Places, NEW q \in Places
  PROVE  Was(p) \in Places /\ (Earlier(p, q) => Earlier(Was(p), Was(q)))
<1>1. Was(p)[1] = p[1] /\ Was(p)[3] = p[3] /\ Was(q)[1] = q[1] /\ Was(q)[3] = q[3]
  BY DEF Was, Places
<1>2. Was(p)[2] = (IF p[1] \in {1, 4} THEN p[2] ELSE p[2] + 1)
  BY DEF Was, Places
<1>3. Was(q)[2] = (IF q[1] \in {1, 4} THEN q[2] ELSE q[2] + 1)
  BY DEF Was, Places
<1>4. p[1] \in 1 .. 5 /\ p[2] \in Nat /\ p[3] \in Nat /\ q[1] \in 1 .. 5 /\ q[2] \in Nat /\ q[3] \in Nat
  BY DEF Places
<1>5. Was(p) \in Places
  BY <1>4 DEF Was, Places
<1> QED
  BY <1>1, <1>2, <1>3, <1>4, <1>5 DEF Earlier

\* The places of the waiting callbacks when the head of the queue goes.
LEMMA QueueMoves ==
  ASSUME ListeningTypes, ready # <<>>,
         ready' = Tail(ready) \/ \E c \in Calls : ready' = Append(Tail(ready), c),
         NEW p \in Places, p[1] \notin {1, 4}, NEW a
  PROVE  /\ At(p, a)' => p[2] \in 1 .. Len(ready')
         /\ At(p, a)' /\ p[2] # Len(ready) => At(Was(p), a)
         /\ At(p, a) /\ p[2] # 1 => \E q \in Places : q[1] = p[1] /\ At(q, a)'
<1>1. /\ Len(ready) \in Nat \ {0} /\ Len(ready') \in {Len(ready) - 1, Len(ready)}
      /\ \A k \in 1 .. Len(ready) - 1 : ready'[k] = ready[k + 1]
  BY Dequeued, Replaced
<1>2. p[1] \in 1 .. 5 /\ p[2] \in Nat /\ p[3] \in Nat
  BY DEF Places
<1>3. Was(p)[1] = p[1] /\ Was(p)[2] = p[2] + 1 /\ Was(p)[3] = p[3]
  BY <1>2 DEF Was
<1>4. At(p, a)' => p[2] \in 1 .. Len(ready') /\ Holds(ready'[p[2]], p[1], p[3], a)
  BY DEF At
<1>5. ASSUME At(p, a)', p[2] # Len(ready) PROVE At(Was(p), a)
  <2>1. p[2] \in 1 .. Len(ready) - 1 /\ Holds(ready[p[2] + 1], p[1], p[3], a)
    BY <1>1, <1>2, <1>4, <1>5
  <2>2. p[2] + 1 \in 1 .. Len(ready)
    BY <1>1, <2>1
  <2> QED
    BY <1>3, <2>1, <2>2 DEF At
<1>6. ASSUME At(p, a), p[2] # 1 PROVE \E q \in Places : q[1] = p[1] /\ At(q, a)'
  <2>1. p[2] \in 1 .. Len(ready) /\ Holds(ready[p[2]], p[1], p[3], a)
    BY <1>6 DEF At
  <2>2. p[2] - 1 \in 1 .. Len(ready) - 1 /\ ready'[p[2] - 1] = ready[p[2]] /\ p[2] - 1 \in 1 .. Len(ready')
    BY <1>1, <1>6, <2>1
  <2> DEFINE q == <<p[1], p[2] - 1, p[3]>>
  <2>3. q \in Places /\ q[1] = p[1] /\ q[2] = p[2] - 1 /\ q[3] = p[3]
    BY <1>1, <1>2, <2>2, PlaceOf
  <2>4. q[2] \in 1 .. Len(ready') /\ Holds(ready'[q[2]], q[1], q[3], a)
    BY <2>1, <2>2, <2>3
  <2>5. At(q, a)'
    BY <2>4 DEF At
  <2> QED
    BY <2>3, <2>5
<1> QED
  BY <1>4, <1>5, <1>6

\* Places outside of the queue that nothing touches.
LEMMA Untouched ==
  ASSUME NEW p \in Places, NEW a, (p[1] = 1 /\ calls' = calls) \/ (p[1] = 4 /\ buf' = buf)
  PROVE  (At(p, a)' <=> At(p, a)) /\ Was(p) = p
BY DEF At, Holds, Was

\* The blocks keep their order, and none is lost, when the places that are fresh come
\* from M and all others from where they were.
LEMMA Moved ==
  ASSUME ListeningTypes, LineInv, now' = now, NEW F, NEW O \in [Places -> Places],
         \A p \in Places, a \in Nat : p \in F /\ At(p, a)' => At(O[p], a),
         \A p \in Places, a \in Nat : p \notin F /\ At(p, a)' => At(Was(p), a),
         \A p, q \in Places : p \in F /\ q \in F /\ Earlier(p, q) => Earlier(O[p], O[q]),
         \A p, q \in Places, a \in Nat :
           p \in F /\ q \notin F /\ At(q, a)' /\ Earlier(p, q) => Earlier(O[p], Was(q)),
         \A p, q \in Places, a \in Nat :
           p \notin F /\ q \in F /\ At(p, a)' /\ Earlier(p, q) => Earlier(Was(p), O[q])
  PROVE  InOrder' /\ InPast'
<1> DEFINE M == [p \in Places |-> IF p \in F THEN O[p] ELSE Was(p)]
<1>1. M \in [Places -> Places] /\ \A p \in Places : M[p] = IF p \in F THEN O[p] ELSE Was(p)
  BY WasOrdered
<1>2. now' \in Nat /\ now \in Nat /\ now <= now'
  BY DEF ListeningTypes
<1>3. \A p \in Places, a \in Nat : At(p, a)' => At(M[p], a)
  BY <1>1
<1>4. \A p, q \in Places, a, b \in Nat : At(p, a)' /\ At(q, b)' /\ Earlier(p, q) => Earlier(M[p], M[q])
  BY <1>1, WasOrdered
<1> HIDE DEF M
<1> QED
  BY <1>1, <1>2, <1>3, <1>4, Carried

LEMMA LineIgnore ==
  ASSUME ListeningTypes, LineInv, IgnoreBlock
  PROVE  LineInv'
<1>1. ready # <<>> /\ ready' = Tail(ready) /\ ready[1].kind = "block"
  BY HeadOf DEF IgnoreBlock, Comes
<1>2. UNCHANGED <<now, buf, calls, heard, discarded>>
  BY DEF IgnoreBlock, buffer, past
<1>3. Len(ready) \in Nat \ {0} /\ Len(ready') = Len(ready) - 1
  BY <1>1, Dequeued
<1>4. ASSUME NEW p \in Places, NEW a \in Nat, At(p, a)' PROVE At(Was(p), a)
  <2>1. CASE p[1] \in {1, 4}
    BY <1>2, <1>4, <2>1, Untouched
  <2>2. CASE p[1] \notin {1, 4}
    BY <1>1, <1>3, <1>4, <2>2, QueueMoves
  <2> QED
    BY <2>1, <2>2
<1>5. ASSUME NEW p \in Places, NEW a \in Nat, p[1] # 5, At(p, a) PROVE Held(a)'
  <2>1. CASE p[1] \in {1, 4}
    BY <1>2, <1>5, <2>1, Untouched DEF Held
  <2>2. CASE p[1] \notin {1, 4}
    <3>1. p[2] # 1
      BY <1>1, <1>5, <2>2 DEF At, Holds
    <3> QED
      BY <1>1, <1>5, <2>2, <3>1, QueueMoves DEF Held
  <2> QED
    BY <2>1, <2>2
<1>6. NoneLost'
  BY <1>2, <1>5 DEF NoneLost, Held, LineInv
<1> DEFINE F == {}
           O == [p \in Places |-> p]
<1>7. O \in [Places -> Places]
  OBVIOUS
<1>8. \A p : p \notin F
  OBVIOUS
<1> HIDE DEF F, O
<1>9. InOrder' /\ InPast'
  BY <1>2, <1>4, <1>7, <1>8, Moved
<1> QED
  BY <1>6, <1>9 DEF LineInv

LEMMA LineTranscribe ==
  ASSUME ListeningTypes, LineInv, Transcribe
  PROVE  LineInv'
<1>1. ready # <<>> /\ ready' = Tail(ready) /\ ready[1].kind = "recognition"
  BY HeadOf DEF Transcribe, Comes
<1>2. UNCHANGED <<now, buf, heard, discarded>>
  BY DEF Transcribe, buffer
<1>3. Len(ready) \in Nat \ {0} /\ Len(ready') = Len(ready) - 1
  BY <1>1, Dequeued
<1>4. /\ calls \in Seq(Seq(Nat)) /\ Head(ready).blocks \in Seq(Nat) /\ Head(ready) = ready[1]
      /\ calls' = Append(calls, ready[1].blocks)
  BY <1>1, HeadOf DEF Transcribe, Recognise, Comes, ListeningTypes
<1> PICK n : n = Len(calls) + 1
  OBVIOUS
<1>5. /\ n \in Nat \ {0} /\ Len(calls') = n /\ calls'[n] = ready[1].blocks
      /\ \A k \in 1 .. n - 1 : calls'[k] = calls[k]
  BY <1>4, AppendOf
<1> DEFINE F == {p \in Places : p[1] = 1 /\ p[2] = n}
           O == [p \in Places |-> <<2, 1, p[3]>>]
<1>6. ASSUME NEW p \in Places PROVE O[p] \in Places /\ O[p][1] = 2 /\ O[p][2] = 1 /\ O[p][3] = p[3]
  BY PlaceOf DEF Places
<1>7. O \in [Places -> Places]
  BY <1>6
<1> HIDE DEF O
<1>8. ASSUME NEW p \in Places, NEW a \in Nat, p[1] = 1, p[2] = n
      PROVE  At(p, a)' <=> At(O[p], a)
  <2>1. At(p, a)' <=> p[3] \in 1 .. Len(ready[1].blocks) /\ a = ready[1].blocks[p[3]]
    BY <1>5, <1>8 DEF At, Holds
  <2>2. At(O[p], a) <=> Holds(ready[1], 2, p[3], a)
    BY <1>3, <1>6 DEF At
  <2>3. Holds(ready[1], 2, p[3], a) <=>
          p[3] \in 1 .. Len(ready[1].blocks) /\ a = ready[1].blocks[p[3]]
    BY <1>1 DEF Holds
  <2> QED
    BY <2>1, <2>2, <2>3
<1>9. ASSUME NEW p \in Places, NEW a \in Nat, p[1] = 1, p[2] # n
      PROVE  (At(p, a)' <=> At(p, a)) /\ Was(p) = p
  <2>1. Was(p) = p
    BY <1>9 DEF Was
  <2>2. p[2] \in 1 .. n <=> p[2] \in 1 .. n - 1
    BY <1>5, <1>9 DEF Places
  <2> QED
    BY <1>5, <1>9, <2>1, <2>2 DEF At, Holds
<1>10. ASSUME NEW p \in Places, NEW a \in Nat, p \notin F, At(p, a)' PROVE At(Was(p), a)
  <2>1. CASE p[1] = 4
    BY <1>2, <1>10, <2>1, Untouched
  <2>2. CASE p[1] \notin {1, 4}
    BY <1>1, <1>3, <1>10, <2>2, QueueMoves
  <2> QED
    BY <1>9, <1>10, <2>1, <2>2
<1>11. ASSUME NEW p \in Places, NEW a \in Nat, p[1] # 5, At(p, a) PROVE Held(a)'
  <2>1. CASE p[1] = 4
    BY <1>2, <1>11, <2>1, Untouched DEF Held
  <2>2. CASE p[1] = 1
    <3>1. p[2] # n
      BY <1>5, <1>11, <2>2 DEF At, Holds
    <3> QED
      BY <1>9, <1>11, <2>2, <3>1 DEF Held
  <2>3. CASE p[1] \notin {1, 4} /\ p[2] # 1
    BY <1>1, <1>11, <2>3, QueueMoves DEF Held
  <2>4. CASE p[1] \notin {1, 4} /\ p[2] = 1
    <3> DEFINE q == <<1, n, p[3]>>
    <3>1. q \in Places /\ q[1] = 1 /\ q[2] = n /\ q[3] = p[3] /\ O[q] = <<2, 1, p[3]>>
      BY <1>5, PlaceOf DEF Places, O
    <3>2. p = <<p[1], p[2], p[3]>> /\ p[1] = 2
      BY <1>1, <1>11, <2>4 DEF At, Holds, Places
    <3>3. At(O[q], a)
      BY <1>11, <2>4, <3>1, <3>2
    <3>4. At(q, a)'
      BY <1>8, <3>1, <3>3
    <3> QED
      BY <3>1, <3>4 DEF Held
  <2> QED
    BY <2>1, <2>2, <2>3, <2>4
<1>12. NoneLost'
  BY <1>2, <1>11 DEF NoneLost, Held, LineInv
<1>13. \A p, q \in Places : p \in F /\ q \in F /\ Earlier(p, q) => Earlier(O[p], O[q])
  BY <1>5, <1>6 DEF Earlier, Places
<1>14. ASSUME NEW p \in Places, NEW q \in Places, NEW a \in Nat,
              p \in F, q \notin F, At(q, a)', Earlier(p, q)
       PROVE  Earlier(O[p], Was(q))
  <2>1. q[1] # 1
    BY <1>5, <1>14 DEF Earlier, At, Holds, Places
  <2>2. q[1] \notin {1, 4} => q[2] \in 1 .. Len(ready')
    BY <1>1, <1>14, QueueMoves
  <2> QED
    BY <1>3, <1>6, <2>1, <2>2 DEF Earlier, Was, Places
<1>15. ASSUME NEW p \in Places, NEW q \in Places, NEW a \in Nat,
              p \notin F, q \in F, At(p, a)', Earlier(p, q)
       PROVE  Earlier(Was(p), O[q])
  <2>1. p[1] = 1 /\ Was(p) = p
    BY <1>15 DEF Earlier, Was, Places
  <2> QED
    BY <1>6, <2>1 DEF Earlier
<1>16. \A p \in Places, a \in Nat : p \in F /\ At(p, a)' => At(O[p], a)
  BY <1>8
<1> HIDE DEF F
<1>17. InOrder' /\ InPast'
  BY <1>2, <1>7, <1>10, <1>13, <1>14, <1>15, <1>16, Moved
<1> QED
  BY <1>12, <1>17 DEF LineInv

LEMMA LineOnSegment ==
  ASSUME ListeningTypes, LineInv, OnSegment
  PROVE  LineInv'
<1> PICK n : n = Len(ready)
  OBVIOUS
<1> DEFINE c == RecognitionCall(Head(ready).blocks)
<1>1. ready # <<>> /\ ready' = Append(Tail(ready), c) /\ ready[1].kind = "segment"
  BY HeadOf DEF OnSegment, Comes
<1>2. UNCHANGED <<now, calls, buf, heard, discarded>>
  BY DEF OnSegment, buffer, past
<1>3. c \in Calls /\ c.kind = "recognition" /\ c.blocks = ready[1].blocks
  BY <1>1, HeadOf DEF RecognitionCall, Calls, Comes
<1> HIDE DEF c
<1>4. n \in Nat \ {0} /\ Len(ready') = n /\ ready'[n] = c
  BY <1>1, <1>3, Replaced
<1> DEFINE F == {p \in Places : p[1] = 2 /\ p[2] = n}
           O == [p \in Places |-> <<3, 1, p[3]>>]
<1>5. ASSUME NEW p \in Places PROVE O[p] \in Places /\ O[p][1] = 3 /\ O[p][2] = 1 /\ O[p][3] = p[3]
  BY PlaceOf DEF Places
<1>6. O \in [Places -> Places]
  BY <1>5
<1> HIDE DEF O
<1>7. ASSUME NEW p \in Places, NEW a \in Nat, p[1] = 2, p[2] = n
      PROVE  At(p, a)' <=> At(O[p], a)
  <2>1. At(p, a)' <=> p[3] \in 1 .. Len(ready[1].blocks) /\ a = ready[1].blocks[p[3]]
    BY <1>3, <1>4, <1>7 DEF At, Holds
  <2>2. At(O[p], a) <=> Holds(ready[1], 3, p[3], a)
    BY <1>4, <1>5 DEF At
  <2>3. Holds(ready[1], 3, p[3], a) <=>
          p[3] \in 1 .. Len(ready[1].blocks) /\ a = ready[1].blocks[p[3]]
    BY <1>1 DEF Holds
  <2> QED
    BY <2>1, <2>2, <2>3
<1>8. ASSUME NEW p \in Places, NEW a \in Nat, p \notin F, At(p, a)' PROVE At(Was(p), a)
  <2>1. CASE p[1] \in {1, 4}
    BY <1>2, <1>8, <2>1, Untouched
  <2>2. CASE p[1] \notin {1, 4}
    <3>1. p[2] # n
      BY <1>3, <1>4, <1>8, <2>2 DEF At, Holds
    <3> QED
      BY <1>1, <1>3, <1>8, <2>2, <3>1, QueueMoves
  <2> QED
    BY <2>1, <2>2
<1>9. ASSUME NEW p \in Places, NEW a \in Nat, p[1] # 5, At(p, a) PROVE Held(a)'
  <2>1. CASE p[1] \in {1, 4}
    BY <1>2, <1>9, <2>1, Untouched DEF Held
  <2>2. CASE p[1] \notin {1, 4} /\ p[2] # 1
    BY <1>1, <1>3, <1>9, <2>2, QueueMoves DEF Held
  <2>3. CASE p[1] \notin {1, 4} /\ p[2] = 1
    <3> DEFINE q == <<2, n, p[3]>>
    <3>1. q \in Places /\ q[1] = 2 /\ q[2] = n /\ q[3] = p[3] /\ O[q] = <<3, 1, p[3]>>
      BY <1>4, PlaceOf DEF Places, O
    <3>2. p = <<p[1], p[2], p[3]>> /\ p[1] = 3
      BY <1>1, <1>9, <2>3 DEF At, Holds, Places
    <3>3. At(O[q], a)
      BY <1>9, <2>3, <3>1, <3>2
    <3>4. At(q, a)'
      BY <1>7, <3>1, <3>3
    <3> QED
      BY <3>1, <3>4 DEF Held
  <2> QED
    BY <2>1, <2>2, <2>3
<1>10. NoneLost'
  BY <1>2, <1>9 DEF NoneLost, Held, LineInv
<1>11. \A p, q \in Places : p \in F /\ q \in F /\ Earlier(p, q) => Earlier(O[p], O[q])
  BY <1>4, <1>5 DEF Earlier, Places
<1>12. ASSUME NEW p \in Places, NEW q \in Places, NEW a \in Nat,
              p \in F, q \notin F, At(q, a)', Earlier(p, q)
       PROVE  Earlier(O[p], Was(q))
  <2>1. q[1] \notin {1, 4} => q[2] \in 1 .. n
    BY <1>1, <1>3, <1>4, <1>12, QueueMoves
  <2> QED
    BY <1>4, <1>5, <1>12, <2>1 DEF Earlier, Was, Places
<1>13. ASSUME NEW p \in Places, NEW q \in Places, NEW a \in Nat,
              p \notin F, q \in F, At(p, a)', Earlier(p, q)
       PROVE  Earlier(Was(p), O[q])
  BY <1>5, <1>13 DEF Earlier, Was, Places
<1>14. \A p \in Places, a \in Nat : p \in F /\ At(p, a)' => At(O[p], a)
  BY <1>7
<1> HIDE DEF F
<1>15. InOrder' /\ InPast'
  BY <1>2, <1>6, <1>8, <1>11, <1>12, <1>13, <1>14, Moved
<1> QED
  BY <1>10, <1>15 DEF LineInv

\* A block begins or continues a segment.
LEMMA LineBuffered ==
  ASSUME ListeningTypes, LineInv, Begin \/ Continue
  PROVE  LineInv'
<1> PICK n, d : n = Len(buf) + 1 /\ d = Dispatched
  OBVIOUS
<1>1. ready # <<>> /\ ready' = Tail(ready) /\ ready[1].kind = "block"
  BY HeadOf DEF Begin, Continue, Hearing, Comes
<1>2. UNCHANGED <<now, calls, discarded>> /\ heard' = heard \cup ({d} \cap spoken)
  BY DEF Begin, Continue, Heard
<1>3. Len(ready) \in Nat \ {0} /\ Len(ready') = Len(ready) - 1
  BY <1>1, Dequeued
<1>4. d \in Nat /\ d = ready[1].at
  BY <1>1, HeadOf DEF Begin, Continue, Hearing
<1>5. /\ n \in Nat \ {0} /\ Len(buf') = n /\ buf'[n] = d
      /\ \A k \in 1 .. n - 1 : buf'[k] = buf[k]
  <2>1. buf \in Seq(Nat)
    BY DEF ListeningTypes
  <2>2. CASE Begin
    BY <2>2 DEF Begin
  <2>3. CASE Continue
    <3>1. buf' = Append(buf, d) /\ Len(buf) = n - 1
      BY <2>1, <2>3 DEF Continue
    <3> QED
      BY <1>4, <2>1, <3>1, AppendOf
  <2> QED
    BY <2>2, <2>3
<1> DEFINE F == {p \in Places : p[1] = 4 /\ p[2] = 0 /\ p[3] = n}
           O == [p \in Places |-> <<5, 1, 1>>]
<1>6. ASSUME NEW p \in Places PROVE O[p] \in Places /\ O[p][1] = 5 /\ O[p][2] = 1 /\ O[p][3] = 1
  BY PlaceOf
<1>7. O \in [Places -> Places]
  BY <1>6
<1> HIDE DEF O
<1>8. ASSUME NEW p \in Places, NEW a \in Nat, p[1] = 4, p[2] = 0, p[3] = n, At(p, a)' PROVE At(O[p], a)
  <2>1. a = d
    BY <1>5, <1>8 DEF At, Holds
  <2> QED
    BY <1>1, <1>3, <1>4, <1>6, <2>1 DEF At, Holds
<1>9. ASSUME NEW p \in Places, NEW a \in Nat, p[1] = 4, p[2] # 0 \/ p[3] # n
      PROVE  (At(p, a)' <=> At(p, a)) /\ Was(p) = p
  <2>1. Was(p) = p
    BY <1>9 DEF Was
  <2>2. p[3] # n => (p[3] \in 1 .. n <=> p[3] \in 1 .. n - 1)
    BY <1>5 DEF Places
  <2>3. Len(buf) = n - 1
    BY DEF ListeningTypes
  <2>4. At(p, a)' <=> p[2] = 0 /\ p[3] \in 1 .. n /\ a = buf'[p[3]]
    BY <1>5, <1>9 DEF At, Holds
  <2>5. At(p, a) <=> p[2] = 0 /\ p[3] \in 1 .. n - 1 /\ a = buf[p[3]]
    BY <1>9, <2>3 DEF At, Holds
  <2> QED
    BY <1>5, <1>9, <2>1, <2>2, <2>4, <2>5
<1>10. ASSUME NEW p \in Places, NEW a \in Nat, p \notin F, At(p, a)' PROVE At(Was(p), a)
  <2>1. CASE p[1] = 1
    BY <1>2, <1>10, <2>1, Untouched
  <2>2. CASE p[1] \notin {1, 4}
    BY <1>1, <1>3, <1>10, <2>2, QueueMoves
  <2> QED
    BY <1>9, <1>10, <2>1, <2>2
<1>11. ASSUME NEW p \in Places, NEW a \in Nat, p[1] # 5, At(p, a) PROVE Held(a)'
  <2>1. CASE p[1] = 1
    BY <1>2, <1>11, <2>1, Untouched DEF Held
  <2>2. CASE p[1] = 4
    <3>1. p[3] # n
      BY <1>5, <1>11, <2>2 DEF At, Holds
    <3> QED
      BY <1>9, <1>11, <2>2, <3>1 DEF Held
  <2>3. CASE p[1] \notin {1, 4}
    <3>1. p[2] # 1
      BY <1>1, <1>11, <2>3 DEF At, Holds
    <3> QED
      BY <1>1, <1>11, <2>3, <3>1, QueueMoves DEF Held
  <2> QED
    BY <2>1, <2>2, <2>3
<1>12. Held(d)'
  <2> DEFINE q == <<4, 0, n>>
  <2>1. q \in Places /\ q[1] = 4 /\ q[2] = 0 /\ q[3] = n
    BY <1>5, PlaceOf
  <2>2. At(q, d)'
    BY <1>5, <2>1 DEF At
  <2> QED
    BY <2>1, <2>2 DEF Held
<1>13. NoneLost'
  BY <1>2, <1>4, <1>11, <1>12 DEF NoneLost, Held, LineInv
<1>14. \A p, q \in Places : p \in F /\ q \in F /\ Earlier(p, q) => Earlier(O[p], O[q])
  BY <1>5 DEF Earlier, Places
<1>15. ASSUME NEW p \in Places, NEW q \in Places, NEW a \in Nat,
              p \in F, q \notin F, At(q, a)', Earlier(p, q)
       PROVE  Earlier(O[p], Was(q))
  <2>1. q[1] \notin {1, 4} => q[2] \in 1 .. Len(ready')
    BY <1>1, <1>15, QueueMoves
  <2> QED
    BY <1>3, <1>5, <1>6, <1>15, <2>1 DEF Earlier, Was, Places, At, Holds
<1>16. ASSUME NEW p \in Places, NEW q \in Places, NEW a \in Nat,
              p \notin F, q \in F, At(p, a)', Earlier(p, q)
       PROVE  Earlier(Was(p), O[q])
  BY <1>6, <1>16 DEF Earlier, Was, Places
<1>17. \A p \in Places, a \in Nat : p \in F /\ At(p, a)' => At(O[p], a)
  BY <1>8
<1> HIDE DEF F
<1>18. InOrder' /\ InPast'
  BY <1>2, <1>7, <1>10, <1>14, <1>15, <1>16, <1>17, Moved
<1> QED
  BY <1>13, <1>18 DEF LineInv

LEMMA LineEnd ==
  ASSUME ListeningTypes, LineInv, End
  PROVE  LineInv'
<1> PICK n, m, d, c : /\ n = Len(ready) /\ m = Len(buf) + 1 /\ d = Dispatched
                     /\ c = SegmentCall(Append(buf, d))
  OBVIOUS
<1>1. ready # <<>> /\ ready' = Append(Tail(ready), c) /\ ready[1].kind = "block"
  BY HeadOf DEF End, Hearing, Comes
<1>2. /\ UNCHANGED <<now, calls, discarded>> /\ heard' = heard \cup ({d} \cap spoken)
      /\ buf' = <<>>
  BY DEF End, Heard
<1>3. d \in Nat /\ d = ready[1].at
  BY <1>1, HeadOf DEF End, Hearing
<1>0. m \in Nat \ {0} /\ Len(buf) = m - 1
  BY DEF ListeningTypes
<1>4. /\ Len(c.blocks) = m /\ c.blocks[m] = d /\ c.blocks \in Seq(Nat)
      /\ \A k \in 1 .. m - 1 : c.blocks[k] = buf[k]
  BY <1>3, <1>0, AppendOf DEF SegmentCall, ListeningTypes
<1>5. c \in Calls /\ c.kind = "segment"
  BY <1>4, <1>0 DEF SegmentCall, Calls
<1>6. n \in Nat \ {0} /\ Len(ready') = n /\ ready'[n] = c
  BY <1>1, <1>5, Replaced
<1> DEFINE F == {p \in Places : p[1] = 3 /\ p[2] = n /\ p[3] \in 1 .. m}
           O == [p \in Places |-> IF p[3] < m THEN <<4, 0, p[3]>> ELSE <<5, 1, 1>>]
<1>7. ASSUME NEW p \in Places
      PROVE  /\ O[p] \in Places
             /\ p[3] < m => O[p][1] = 4 /\ O[p][2] = 0 /\ O[p][3] = p[3]
             /\ p[3] >= m => O[p][1] = 5 /\ O[p][2] = 1 /\ O[p][3] = 1
  BY <1>0 DEF Places
<1>8. O \in [Places -> Places]
  BY <1>7
<1> HIDE DEF O
<1>9. ASSUME NEW p \in Places, NEW a \in Nat, p[1] = 3, p[2] = n
      PROVE  At(p, a)' <=> p[3] \in 1 .. m /\ a = c.blocks[p[3]]
  BY <1>4, <1>0, <1>5, <1>6, <1>9 DEF At, Holds
<1>10. ASSUME NEW p \in Places, NEW a \in Nat, p[1] = 3, p[2] = n, At(p, a)' PROVE At(O[p], a)
  <2>1. p[3] \in 1 .. m /\ a = c.blocks[p[3]]
    BY <1>9, <1>10
  <2>2. CASE p[3] < m
    <3>1. p[3] \in 1 .. m - 1
      BY <1>4, <1>0, <2>1, <2>2
    <3>2. a = buf[p[3]] /\ p[3] \in 1 .. Len(buf)
      BY <1>4, <1>0, <2>1, <3>1
    <3> QED
      BY <1>7, <2>2, <3>2 DEF At, Holds
  <2>3. CASE p[3] = m
    <3>1. O[p][1] = 5 /\ O[p][2] = 1 /\ O[p][3] = 1
      BY <1>0, <1>7, <2>3
    <3>2. a = ready[1].at
      BY <1>3, <1>4, <2>1, <2>3
    <3>3. 1 \in 1 .. Len(ready)
      BY <1>6
    <3>4. Holds(ready[1], 5, 1, a)
      BY <1>1, <3>2 DEF Holds
    <3> QED
      BY <3>1, <3>3, <3>4 DEF At
  <2> QED
    BY <1>4, <1>0, <2>1, <2>2, <2>3
<1>11. ASSUME NEW p \in Places, NEW a \in Nat, p \notin F, At(p, a)' PROVE At(Was(p), a)
  <2>1. CASE p[1] = 1
    BY <1>2, <1>11, <2>1, Untouched
  <2>2. CASE p[1] \notin {1, 4}
    <3>1. p[2] # n
      BY <1>5, <1>6, <1>9, <1>11, <2>2 DEF At, Holds
    <3> QED
      BY <1>1, <1>5, <1>11, <2>2, <3>1, QueueMoves
  <2>3. p[1] # 4
    BY <1>2, <1>11 DEF At, Holds
  <2> QED
    BY <2>1, <2>2, <2>3
<1>12. ASSUME NEW i \in 1 .. m PROVE Held(c.blocks[i])'
  <2> PICK a : a = c.blocks[i]
    OBVIOUS
  <2> DEFINE q == <<3, n, i>>
  <2>1. q \in Places /\ q[1] = 3 /\ q[2] = n /\ q[3] = i
    BY <1>4, <1>0, <1>6, PlaceOf
  <2>2. At(q, a)'
    BY <1>4, <1>0, <1>9, <2>1
  <2> QED
    BY <2>1, <2>2 DEF Held
<1>13. ASSUME NEW p \in Places, NEW a \in Nat, p[1] # 5, At(p, a) PROVE Held(a)'
  <2>1. CASE p[1] = 1
    BY <1>2, <1>13, <2>1, Untouched DEF Held
  <2>2. CASE p[1] = 4
    <3>1. p[3] \in 1 .. m - 1 /\ a = buf[p[3]]
      BY <1>4, <1>0, <1>13, <2>2 DEF At, Holds
    <3>2. p[3] \in 1 .. m /\ a = c.blocks[p[3]]
      BY <1>4, <1>0, <3>1
    <3> QED
      BY <1>12, <3>2
  <2>3. CASE p[1] \notin {1, 4}
    <3>1. p[2] # 1
      BY <1>1, <1>13, <2>3 DEF At, Holds
    <3> QED
      BY <1>1, <1>5, <1>13, <2>3, <3>1, QueueMoves DEF Held
  <2> QED
    BY <2>1, <2>2, <2>3
<1>14. NoneLost'
  <2>1. Held(d)'
    BY <1>4, <1>0, <1>12
  <2> QED
    BY <1>2, <1>3, <1>13, <2>1 DEF NoneLost, Held, LineInv
<1>15. \A p, q \in Places : p \in F /\ q \in F /\ Earlier(p, q) => Earlier(O[p], O[q])
  BY <1>0, <1>7 DEF Earlier, Places
<1>16. ASSUME NEW p \in Places, NEW q \in Places, NEW a \in Nat,
              p \in F, q \notin F, At(q, a)', Earlier(p, q)
       PROVE  Earlier(O[p], Was(q))
  <2>1. q[1] \notin {1, 4} => q[2] \in 1 .. n
    BY <1>1, <1>5, <1>6, <1>16, QueueMoves
  <2>2. q[1] # 4
    BY <1>2, <1>16 DEF At, Holds
  <2>3. ~(q[1] = 3 /\ q[2] = n)
    BY <1>9, <1>16
  <2>4. q[1] = 5 /\ Was(q) = <<5, q[2] + 1, q[3]>> /\ q[2] >= 1
    BY <1>6, <1>16, <2>1, <2>2, <2>3 DEF Earlier, Was, Places
  <2> QED
    <3>1. p[3] \in Nat /\ O[p][1] \in {4, 5} /\ (O[p][1] = 5 => O[p][2] = 1)
      BY <1>0, <1>7 DEF Places
    <3>2. Was(q)[1] = 5 /\ Was(q)[2] > 1 /\ Was(q)[2] \in Nat
      BY <2>4 DEF Places
    <3> QED
      BY <3>1, <3>2 DEF Earlier
<1>17. ASSUME NEW p \in Places, NEW q \in Places, NEW a \in Nat,
              p \notin F, q \in F, At(p, a)', Earlier(p, q)
       PROVE  Earlier(Was(p), O[q])
  <2>1. Was(p)[1] <= 3 /\ Was(p)[1] \in Nat
    BY <1>17 DEF Earlier, Was, Places
  <2>2. O[q][1] \in {4, 5}
    BY <1>4, <1>0, <1>7, <1>17 DEF Places
  <2> QED
    BY <2>1, <2>2 DEF Earlier
<1>18. \A p \in Places, a \in Nat : p \in F /\ At(p, a)' => At(O[p], a)
  BY <1>10
<1> HIDE DEF F
<1>19. InOrder' /\ InPast'
  BY <1>2, <1>8, <1>11, <1>15, <1>16, <1>17, <1>18, Moved
<1> QED
  BY <1>14, <1>19 DEF LineInv

LEMMA LineCaptureOn ==
  ASSUME ListeningTypes, LineInv, CaptureOn
  PROVE  LineInv'
<1>1. /\ UNCHANGED <<now, ready, calls, heard>> /\ buf' = <<>>
      /\ discarded' = discarded \cup ToSet(buf)
  BY DEF CaptureOn
<1> DEFINE M == [p \in Places |-> p]
<1>2. M \in [Places -> Places] /\ \A p \in Places : M[p] = p
  OBVIOUS
<1>3. ASSUME NEW p \in Places, NEW a PROVE IF p[1] = 4 THEN ~At(p, a)' ELSE At(p, a)' <=> At(p, a)
  BY <1>1 DEF At, Holds
<1>4. \A p \in Places, a \in Nat : At(p, a)' => At(M[p], a)
  BY <1>2, <1>3
<1>5. \A p, q \in Places : Earlier(p, q) => Earlier(M[p], M[q])
  BY <1>2
<1>6. now' \in Nat /\ now \in Nat /\ now <= now'
  BY <1>1 DEF ListeningTypes
<1>7. ASSUME NEW a, Held(a) PROVE a \in discarded' \/ Held(a)'
  <2> PICK p \in Places : p[1] # 5 /\ At(p, a)
    BY <1>7 DEF Held
  <2>1. CASE p[1] = 4
    <3>1. buf \in Seq(Nat) /\ p[3] \in DOMAIN buf /\ a = buf[p[3]]
      BY <2>1 DEF At, Holds, ListeningTypes
    <3> QED
      BY <1>1, <3>1 DEF ToSet
  <2>2. CASE p[1] # 4
    BY <1>3, <2>2 DEF Held
  <2> QED
    BY <2>1, <2>2
<1>8. NoneLost'
  BY <1>1, <1>7 DEF NoneLost, LineInv
<1> HIDE DEF M
<1>9. InOrder' /\ InPast'
  BY <1>2, <1>4, <1>5, <1>6, Carried
<1> QED
  BY <1>8, <1>9 DEF LineInv

LEMMA LineCapture ==
  ASSUME ListeningTypes, LineInv, NEW speech \in BOOLEAN, Capture(speech), capturing
  PROVE  LineInv'
<1> PICK n : n = Len(ready) + 1
  OBVIOUS
<1>1. now' = now + 1 /\ now \in Nat /\ UNCHANGED <<buf, calls, heard, discarded>>
  BY DEF Capture, buffer, past, ListeningTypes
<1>2. BlockCall(now') \in Calls /\ BlockCall(now').kind = "block" /\ BlockCall(now').at = now + 1
  BY <1>1 DEF BlockCall, Calls
<1>3. /\ n \in Nat \ {0} /\ Len(ready) = n - 1 /\ Len(ready') = n
      /\ ready'[n] = BlockCall(now') /\ \A k \in 1 .. n - 1 : ready'[k] = ready[k]
  <2>1. ready \in Seq(Calls) /\ ready' = Append(ready, BlockCall(now')) /\ Len(ready) = n - 1
    BY DEF Capture, ListeningTypes
  <2> QED
    BY <1>2, <2>1, AppendOf
<1>4. ASSUME NEW p \in Places, NEW a \in Nat, At(p, a)', p[1] \in {1, 4} \/ p[2] # n
      PROVE  At(p, a)
  <2>1. CASE p[1] \in {1, 4}
    BY <1>1, <1>4, <2>1, Untouched
  <2>2. CASE p[1] \notin {1, 4}
    <3>1. p[2] \in 1 .. n - 1 /\ Holds(ready[p[2]], p[1], p[3], a)
      BY <1>3, <1>4, <2>2 DEF At
    <3> QED
      BY <1>3, <3>1 DEF At
  <2> QED
    BY <2>1, <2>2
<1>5. ASSUME NEW p \in Places, NEW a \in Nat, At(p, a)', p[1] \notin {1, 4}, p[2] = n
      PROVE  p[1] = 5 /\ p[3] = 1 /\ a = now + 1
  BY <1>2, <1>3, <1>5 DEF At, Holds
<1>6. ASSUME NEW p \in Places, NEW a, At(p, a), p[1] # 5 PROVE At(p, a)'
  <2>1. CASE p[1] \in {1, 4}
    BY <1>1, <1>6, <2>1, Untouched
  <2>2. CASE p[1] \notin {1, 4}
    <3>1. p[2] \in 1 .. n - 1 /\ Holds(ready[p[2]], p[1], p[3], a)
      BY <1>3, <1>6, <2>2 DEF At
    <3>2. p[2] \in 1 .. Len(ready') /\ Holds(ready'[p[2]], p[1], p[3], a)
      BY <1>3, <3>1
    <3> QED
      BY <3>2 DEF At
  <2> QED
    BY <2>1, <2>2
<1>7. ASSUME NEW p \in Places, NEW q \in Places, NEW a \in Nat, NEW b \in Nat,
             At(p, a)', At(q, b)', Earlier(p, q)
      PROVE  a < b
  <2>1. CASE q[1] \notin {1, 4} /\ q[2] = n
    <3>1. q[1] = 5 /\ q[2] = n /\ q[3] = 1 /\ b = now + 1
      BY <1>5, <1>7, <2>1
    <3>2. p[1] \in {1, 4} \/ p[2] # n
      BY <1>3, <1>5, <1>7, <3>1 DEF Earlier, Places
    <3>3. a <= now
      BY <1>4, <1>7, <3>2 DEF LineInv, InPast
    <3> QED
      BY <1>1, <3>1, <3>3
  <2>2. CASE (q[1] \in {1, 4} \/ q[2] # n) /\ p[1] \notin {1, 4} /\ p[2] = n
    <3>1. p[1] = 5 /\ At(q, b)
      BY <1>4, <1>5, <1>7, <2>2
    <3>2. q[1] = 5 /\ q[2] > n
      BY <1>3, <1>7, <2>2, <3>1 DEF Earlier, Places
    <3> QED
      BY <1>3, <3>1, <3>2 DEF At, Places
  <2>3. CASE (q[1] \in {1, 4} \/ q[2] # n) /\ (p[1] \in {1, 4} \/ p[2] # n)
    BY <1>4, <1>7, <2>3 DEF LineInv, InOrder
  <2> QED
    BY <2>1, <2>2, <2>3
<1>8. InOrder'
  BY <1>7 DEF InOrder, Earlier
<1>9. ASSUME NEW p \in Places, NEW a \in Nat, At(p, a)' PROVE a <= now'
  <2>1. CASE p[1] \notin {1, 4} /\ p[2] = n
    BY <1>1, <1>5, <1>9, <2>1
  <2>2. CASE p[1] \in {1, 4} \/ p[2] # n
    <3>1. a <= now
      BY <1>4, <1>9, <2>2 DEF LineInv, InPast
    <3> QED
      BY <1>1, <3>1
  <2> QED
    BY <2>1, <2>2
<1>10. InPast'
  BY <1>9 DEF InPast
<1>11. NoneLost'
  BY <1>1, <1>6 DEF NoneLost, Held, LineInv
<1> QED
  BY <1>8, <1>10, <1>11 DEF LineInv

LEMMA LineNext ==
  ASSUME ListeningTypes, LineInv, [ListeningNext]_listeningVars
  PROVE  LineInv'
<1>1. ASSUME UNCHANGED <<ready, buf, calls, heard, discarded>>, now' \in {now, now + 1}
      PROVE  LineInv'
  <2>1. \A p, a : At(p, a)' <=> At(p, a)
    BY <1>1 DEF At, Holds
  <2>2. now \in Nat /\ now' \in Nat /\ now <= now'
    BY <1>1 DEF ListeningTypes
  <2>3. InOrder'
    BY <2>1 DEF LineInv, InOrder, Earlier
  <2>4. InPast'
    BY <2>1, <2>2 DEF LineInv, InPast
  <2>5. NoneLost'
    BY <1>1, <2>1 DEF LineInv, NoneLost, Held
  <2> QED
    BY <2>3, <2>4, <2>5 DEF LineInv
<1>2. CASE CaptureOff \/ (\E b \in BOOLEAN : SetListening(b)) \/ UNCHANGED listeningVars
  BY <1>1, <1>2 DEF CaptureOff, SetListening, listeningVars, buffer, past
<1>3. ASSUME NEW b \in BOOLEAN, Capture(b) PROVE LineInv'
  <2>1. CASE capturing
    BY <1>3, <2>1, LineCapture
  <2>2. CASE ~capturing
    BY <1>1, <1>3, <2>2 DEF Capture, buffer, past
  <2> QED
    BY <2>1, <2>2
<1> QED
  BY <1>2, <1>3, LineCaptureOn, LineIgnore, LineBuffered, LineEnd, LineOnSegment, LineTranscribe
     DEF ListeningNext

\* A block of a piece is at a place, at the piece's stage and number.
LEMMA PieceAt ==
  ASSUME ListeningTypes, NEW p \in Pieces, NEW i \in 1 .. Len(p.blocks)
  PROVE  /\ p.stage \in 1 .. 4 /\ p.nr \in Nat /\ i \in Nat /\ p.blocks[i] \in Nat
         /\ <<p.stage, p.nr, i>> \in Places /\ At(<<p.stage, p.nr, i>>, p.blocks[i])
<1>1. CASE p \in Called
  <2> PICK k \in 1 .. Len(calls) : p = Piece(1, k, calls[k])
    BY <1>1 DEF Called
  <2>1. p.stage = 1 /\ p.nr = k /\ p.blocks = calls[k] /\ k \in Nat
    BY DEF Piece, ListeningTypes
  <2>2. calls[k] \in Seq(Nat)
    BY DEF ListeningTypes
  <2>3. i \in Nat /\ p.blocks[i] \in Nat
    BY <2>1, <2>2
  <2>4. At(<<1, k, i>>, p.blocks[i])
    BY <2>1 DEF At
  <2>5. <<1, k, i>> \in Places
    BY <2>1, <2>3, PlaceOf
  <2> QED
    BY <2>1, <2>3, <2>4, <2>5
<1>2. CASE p \in Queued
  <2> PICK k \in Waiting : p = Piece(Stage[ready[k].kind], k, ready[k].blocks)
    BY <1>2 DEF Queued
  <2>1. k \in 1 .. Len(ready) /\ ready[k] \in Calls /\ ready[k].kind # "block" /\ k \in Nat
    BY DEF Waiting, ListeningTypes
  <2>2. ready[k].kind \in {"segment", "recognition"} /\ ready[k].blocks \in Seq(Nat)
    BY <2>1 DEF Calls
  <2>3. Stage[ready[k].kind] = IF ready[k].kind = "recognition" THEN 2 ELSE 3
    BY <2>2 DEF Stage
  <2>4. p.stage = Stage[ready[k].kind] /\ p.nr = k /\ p.blocks = ready[k].blocks
    BY DEF Piece
  <2>5. i \in Nat /\ p.blocks[i] \in Nat
    BY <2>2, <2>4
  <2>6. Holds(ready[k], p.stage, i, p.blocks[i])
    BY <2>2, <2>3, <2>4 DEF Holds
  <2>7. At(<<p.stage, k, i>>, p.blocks[i])
    BY <2>1, <2>6 DEF At
  <2>8. p.stage \in 1 .. 4
    BY <2>3, <2>4
  <2>9. <<p.stage, k, i>> \in Places
    BY <2>1, <2>5, <2>8, PlaceOf
  <2> QED
    BY <2>1, <2>4, <2>5, <2>7, <2>8, <2>9
<1>3. CASE p = Piece(4, 0, buf)
  <2>1. p.stage = 4 /\ p.nr = 0 /\ p.blocks = buf /\ buf \in Seq(Nat)
    BY <1>3 DEF Piece, ListeningTypes
  <2>2. i \in Nat /\ p.blocks[i] \in Nat
    BY <2>1
  <2>3. At(<<4, 0, i>>, p.blocks[i])
    BY <2>1 DEF At
  <2>4. <<4, 0, i>> \in Places
    BY <2>2, PlaceOf
  <2> QED
    BY <2>1, <2>2, <2>3, <2>4
<1> QED
  BY <1>1, <1>2, <1>3 DEF Pieces

\* A block that is held is a block of a piece.
LEMMA HeldInPiece ==
  ASSUME ListeningTypes, NEW a, Held(a)
  PROVE  \E p \in Pieces : a \in ToSet(p.blocks)
<1> PICK p \in Places : p[1] # 5 /\ At(p, a)
  BY DEF Held
<1>1. ASSUME NEW x \in Pieces, x.blocks \in Seq(Nat), p[3] \in 1 .. Len(x.blocks), a = x.blocks[p[3]]
      PROVE  \E y \in Pieces : a \in ToSet(y.blocks)
  BY <1>1 DEF ToSet
<1>2. CASE p[1] = 1
  <2>1. /\ p[2] \in 1 .. Len(calls) /\ p[3] \in 1 .. Len(calls[p[2]])
        /\ a = calls[p[2]][p[3]] /\ calls[p[2]] \in Seq(Nat)
    BY <1>2 DEF At, Holds, ListeningTypes
  <2>2. Piece(1, p[2], calls[p[2]]) \in Pieces /\ Piece(1, p[2], calls[p[2]]).blocks = calls[p[2]]
    BY <2>1 DEF Pieces, Called, Piece
  <2> QED
    BY <1>1, <2>1, <2>2
<1>3. CASE p[1] = 4
  <2>1. buf \in Seq(Nat) /\ p[3] \in 1 .. Len(buf) /\ a = buf[p[3]]
    BY <1>3 DEF At, Holds, ListeningTypes
  <2>2. Piece(4, 0, buf) \in Pieces /\ Piece(4, 0, buf).blocks = buf
    BY DEF Pieces, Piece
  <2> QED
    BY <1>1, <2>1, <2>2
<1>4. CASE p[1] \notin {1, 4}
  <2> DEFINE k == p[2]
  <2>1. k \in 1 .. Len(ready) /\ ready[k] \in Calls /\ Holds(ready[k], p[1], p[3], a)
    BY <1>4 DEF At, ListeningTypes
  <2>2. ready[k].kind # "block" /\ p[3] \in 1 .. Len(ready[k].blocks) /\ a = ready[k].blocks[p[3]]
    BY <2>1 DEF Holds
  <2>3. ready[k].blocks \in Seq(Nat)
    BY <2>1, <2>2 DEF Calls
  <2> DEFINE x == Piece(Stage[ready[k].kind], k, ready[k].blocks)
  <2>4. k \in Waiting
    BY <2>1, <2>2 DEF Waiting
  <2>5. x \in Pieces /\ x.blocks = ready[k].blocks
    BY <2>4 DEF Pieces, Queued, Piece
  <2> HIDE DEF k, x
  <2> QED
    BY <1>1, <2>2, <2>3, <2>5
<1> QED
  BY <1>2, <1>3, <1>4

LEMMA HeardOnceHolds ==
  ASSUME ListeningTypes, LineInv
  PROVE  HeardOnce
<1>1. ASSUME NEW p \in Pieces, NEW i \in 1 .. Len(p.blocks), NEW j \in 1 .. Len(p.blocks), i < j
      PROVE  p.blocks[i] < p.blocks[j]
  <2>1. Earlier(<<p.stage, p.nr, i>>, <<p.stage, p.nr, j>>)
    BY <1>1 DEF Earlier
  <2> QED
    BY <2>1, PieceAt DEF LineInv, InOrder
<1>2. ASSUME NEW p \in Pieces, NEW q \in Pieces, Before(p, q),
             NEW i \in 1 .. Len(p.blocks), NEW j \in 1 .. Len(q.blocks)
      PROVE  p.blocks[i] < q.blocks[j]
  <2>1. Earlier(<<p.stage, p.nr, i>>, <<q.stage, q.nr, j>>)
    BY <1>2 DEF Earlier, Before
  <2> QED
    BY <2>1, PieceAt DEF LineInv, InOrder
<1>3. ASSUME NEW a \in heard PROVE a \in discarded \cup UNION {ToSet(p.blocks) : p \in Pieces}
  BY HeldInPiece DEF LineInv, NoneLost
<1>4. \A p \in Pieces : Increasing(p.blocks)
  BY <1>1 DEF Increasing
<1>5. \A p, q \in Pieces : Before(p, q) => Precedes(p.blocks, q.blocks)
  BY <1>2 DEF Precedes
<1> QED
  BY <1>3, <1>4, <1>5 DEF HeardOnce

\* How late the loop may be, and what that means for the segment being heard: it began
\* and was last heard speech at about the times of its blocks, and so far it is short
\* enough and has no pause that is too long.
Timely ==
  \A k \in 1 .. Len(ready) :
    ready[k].kind = "block" => ready[k].at <= now /\ now <= ready[k].at + MaxDelay

Started == buf[1] \in spoken /\ buf[1] <= start /\ start <= buf[1] + MaxDelay
LastHeard ==
  /\ \A i \in 1 .. Len(buf) : buf[i] \in spoken => buf[i] <= lastSpeech
  /\ \E e \in 1 .. Len(buf) : buf[e] \in spoken /\ lastSpeech <= buf[e] + MaxDelay
Short == \A h \in 2 .. Len(buf) : buf[h] < buf[1] + MaxLength + MaxDelay
NoPause ==
  \A i, h \in 1 .. Len(buf) :
    i < h /\ buf[i] \in spoken /\ (\A g \in i + 1 .. h : buf[g] \notin spoken)
      => buf[h] < buf[i] + Silence + MaxDelay
Hearsay == buf # <<>> => Started /\ LastHeard /\ Short /\ NoPause

AllCut ==
  /\ \A k \in 1 .. Len(calls) : WellCut(calls[k])
  /\ \A k \in 1 .. Len(ready) : ready[k].kind # "block" => WellCut(ready[k].blocks)

CutInv == Timely /\ Hearsay /\ AllCut

\* All blocks that are held are of the past, and those of the buffer in order.
LEMMA PastBlocks ==
  ASSUME ListeningTypes, LineInv
  PROVE  /\ \A i \in 1 .. Len(buf) : buf[i] \in Nat /\ buf[i] <= now
         /\ \A i, j \in 1 .. Len(buf) : i < j => buf[i] < buf[j]
         /\ \A k \in 1 .. Len(calls) : \A i \in 1 .. Len(calls[k]) : calls[k][i] <= now
         /\ \A k \in 1 .. Len(ready) : ready[k].kind # "block" =>
              \A i \in 1 .. Len(ready[k].blocks) : ready[k].blocks[i] <= now
<1>1. ASSUME NEW p \in Pieces, NEW i \in 1 .. Len(p.blocks)
      PROVE  p.blocks[i] \in Nat /\ p.blocks[i] <= now
  BY PieceAt DEF LineInv, InPast
<1>2. ASSUME NEW p \in Pieces PROVE Increasing(p.blocks)
  BY HeardOnceHolds DEF HeardOnce
<1>3. Piece(4, 0, buf) \in Pieces /\ Piece(4, 0, buf).blocks = buf
  BY DEF Pieces, Piece
<1>4. ASSUME NEW k \in 1 .. Len(calls)
      PROVE  Piece(1, k, calls[k]) \in Pieces /\ Piece(1, k, calls[k]).blocks = calls[k]
  BY DEF Pieces, Piece, Called
<1>5. ASSUME NEW k \in 1 .. Len(ready), ready[k].kind # "block"
      PROVE  \E p \in Pieces : p.blocks = ready[k].blocks
  <2> DEFINE p == Piece(Stage[ready[k].kind], k, ready[k].blocks)
  <2>1. p \in Pieces
    BY <1>5 DEF Pieces, Queued, Waiting
  <2>2. p.blocks = ready[k].blocks
    BY DEF Piece
  <2> HIDE DEF p
  <2> QED
    BY <2>1, <2>2
<1>6. \A i \in 1 .. Len(buf) : buf[i] \in Nat /\ buf[i] <= now
  BY <1>1, <1>3
<1>7. \A i, j \in 1 .. Len(buf) : i < j => buf[i] < buf[j]
  BY <1>2, <1>3 DEF Increasing
<1>8. ASSUME NEW k \in 1 .. Len(calls), NEW i \in 1 .. Len(calls[k]) PROVE calls[k][i] <= now
  BY <1>1, <1>4
<1>9. ASSUME NEW k \in 1 .. Len(ready), ready[k].kind # "block", NEW i \in 1 .. Len(ready[k].blocks)
      PROVE  ready[k].blocks[i] <= now
  BY <1>1, <1>5, <1>9
<1> QED
  BY <1>6, <1>7, <1>8, <1>9

\* What the microphone adds to the speech is of the future of a segment.
LEMMA SpeechLater ==
  ASSUME ListeningTypes, NEW a \in Nat, a <= now, [ListeningNext]_listeningVars
  PROVE  a \in spoken' <=> a \in spoken
<1>1. spoken' = spoken \/ spoken' = spoken \cup {now + 1}
  BY DEF ListeningNext, CaptureOn, CaptureOff, SetListening, Capture, IgnoreBlock, Begin, Continue, End,
         OnSegment, Transcribe, listeningVars
<1>2. a # now + 1
  BY DEF ListeningTypes
<1> QED
  BY <1>1, <1>2

LEMMA StillCut ==
  ASSUME NEW s, \A i \in 1 .. Len(s) : s[i] \in spoken' <=> s[i] \in spoken, WellCut(s)
  PROVE  WellCut(s)'
<1>1. {i \in 1 .. Len(s) : s[i] \in spoken'} = {i \in 1 .. Len(s) : s[i] \in spoken}
  OBVIOUS
<1> QED
  BY <1>1 DEF WellCut

\* A callback that waits after a step waited before it, or is what the step asked for.
LEMMA QueueFrom ==
  ASSUME ListeningTypes, [ListeningNext]_listeningVars, NEW k \in 1 .. Len(ready')
  PROVE  \/ \E j \in 1 .. Len(ready) : ready'[k] = ready[j]
         \/ (\E b \in BOOLEAN : Capture(b)) /\ ready'[k] = BlockCall(now')
         \/ End /\ ready'[k] = SegmentCall(Append(buf, Dispatched))
         \/ OnSegment /\ ready'[k] = RecognitionCall(ready[1].blocks)
<1>1. ASSUME UNCHANGED ready PROVE \E j \in 1 .. Len(ready) : ready'[k] = ready[j]
  BY <1>1
<1>2. ASSUME ready # <<>>, ready' = Tail(ready) PROVE \E j \in 1 .. Len(ready) : ready'[k] = ready[j]
  <2>1. k \in 1 .. Len(ready) - 1 /\ k + 1 \in 1 .. Len(ready) /\ ready'[k] = ready[k + 1]
    BY <1>2, Dequeued
  <2> QED
    BY <2>1
<1>3. ASSUME ready # <<>>, NEW c \in Calls, ready' = Append(Tail(ready), c)
      PROVE  ready'[k] = c \/ \E j \in 1 .. Len(ready) : ready'[k] = ready[j]
  <2>1. /\ Len(ready) \in Nat \ {0} /\ Len(ready') = Len(ready) /\ ready'[Len(ready)] = c
        /\ \A i \in 1 .. Len(ready) - 1 : ready'[i] = ready[i + 1]
    BY <1>3, Replaced
  <2>2. CASE k = Len(ready)
    BY <2>1, <2>2
  <2>3. CASE k # Len(ready)
    <3>1. k \in 1 .. Len(ready) - 1 /\ k + 1 \in 1 .. Len(ready)
      BY <2>1, <2>3
    <3> QED
      BY <2>1, <3>1
  <2> QED
    BY <2>2, <2>3
<1>4. ASSUME NEW b \in BOOLEAN, Capture(b), ready' # ready
      PROVE  ready'[k] = BlockCall(now') \/ \E j \in 1 .. Len(ready) : ready'[k] = ready[j]
  <2>1. now' \in Nat /\ ready' = Append(ready, BlockCall(now')) /\ ready \in Seq(Calls)
    BY <1>4 DEF Capture, ListeningTypes
  <2>2. BlockCall(now') \in Calls
    BY <2>1 DEF BlockCall, Calls
  <2>3. /\ Len(ready) \in Nat /\ Len(ready') = Len(ready) + 1 /\ ready'[Len(ready) + 1] = BlockCall(now')
        /\ \A i \in 1 .. Len(ready) : ready'[i] = ready[i]
    BY <2>1, <2>2, AppendOf
  <2> QED
    BY <2>3
<1>5. CASE End
  <2>1. ready # <<>> /\ Comes("block") /\ ready' = Append(Tail(ready), SegmentCall(Append(buf, Dispatched)))
    BY <1>5 DEF End, Hearing, Comes
  <2>2. Append(buf, Dispatched) \in Seq(Nat)
    BY <2>1, HeadOf, AppendOf DEF ListeningTypes
  <2>3. SegmentCall(Append(buf, Dispatched)) \in Calls
    BY <2>2 DEF SegmentCall, Calls
  <2> QED
    BY <1>3, <1>5, <2>1, <2>3
<1>6. CASE OnSegment
  <2>1. ready # <<>> /\ ~Comes("block") /\ ready' = Append(Tail(ready), RecognitionCall(Head(ready).blocks))
    BY <1>6 DEF OnSegment, Comes
  <2>2. Head(ready).blocks \in Seq(Nat) /\ Head(ready) = ready[1]
    BY <2>1, HeadOf
  <2>3. RecognitionCall(ready[1].blocks) \in Calls
    BY <2>2 DEF RecognitionCall, Calls
  <2> QED
    BY <1>3, <1>6, <2>1, <2>2, <2>3
<1>7. CASE IgnoreBlock \/ Begin \/ Continue \/ Transcribe
  BY <1>2, <1>7 DEF IgnoreBlock, Begin, Continue, Transcribe, Hearing, Comes
<1>8. CASE CaptureOn \/ CaptureOff \/ (\E b \in BOOLEAN : SetListening(b)) \/ UNCHANGED listeningVars
  BY <1>1, <1>8 DEF CaptureOn, CaptureOff, SetListening, listeningVars
<1> QED
  BY <1>1, <1>4, <1>5, <1>6, <1>7, <1>8 DEF ListeningNext

LEMMA TimelyNext ==
  ASSUME ListeningTypes, Timely, [ListeningNext]_listeningVars
  PROVE  Timely'
<1> SUFFICES ASSUME NEW k \in 1 .. Len(ready'), ready'[k].kind = "block"
             PROVE  ready'[k].at <= now' /\ now' <= ready'[k].at + MaxDelay
  BY DEF Timely
<1>1. now \in Nat /\ MaxDelay \in Nat
  BY ListeningAssumption DEF ListeningTypes
<1>2. ASSUME NEW j \in 1 .. Len(ready), ready'[k] = ready[j]
      PROVE  ready'[k].at <= now' /\ now' <= ready'[k].at + MaxDelay
  <2>1. ready[j].kind = "block" /\ ready[j] \in Calls
    BY <1>2 DEF ListeningTypes
  <2>2. ready[j].at \in Nat /\ ready[j].at <= now /\ now <= ready[j].at + MaxDelay
    BY <2>1 DEF Timely, Calls
  <2>3. now' = now \/ (now' = now + 1 /\ InTime)
    BY DEF ListeningNext, CaptureOn, CaptureOff, SetListening, Capture, IgnoreBlock, Begin, Continue, End,
           OnSegment, Transcribe, listeningVars
  <2>4. now' = now \/ (now' = now + 1 /\ now < ready[j].at + MaxDelay)
    BY <2>1, <2>3 DEF InTime
  <2> QED
    BY <1>1, <1>2, <2>2, <2>4
<1>3. CASE (\E b \in BOOLEAN : Capture(b)) /\ ready'[k] = BlockCall(now')
  <2>1. ready'[k].at = now' /\ now' \in Nat
    BY <1>1, <1>3 DEF Capture, BlockCall
  <2> QED
    BY <1>1, <2>1
<1> QED
  BY <1>2, <1>3, QueueFrom DEF SegmentCall, RecognitionCall

\* The block that is dispatched.
LEMMA DispatchedNow ==
  ASSUME ListeningTypes, Timely, Comes("block")
  PROVE  Dispatched \in Nat /\ Dispatched <= now /\ now <= Dispatched + MaxDelay
<1>1. ready # <<>> /\ ready[1].kind = "block" /\ Dispatched = ready[1].at /\ Dispatched \in Nat
  BY HeadOf DEF Comes
<1>2. 1 \in 1 .. Len(ready)
  BY <1>1 DEF ListeningTypes
<1> QED
  BY <1>1, <1>2 DEF Timely

LEMMA HearsayBegin ==
  ASSUME ListeningTypes, Timely, Begin
  PROVE  Hearsay'
<1> PICK d : d = Dispatched
  OBVIOUS
<1>1. d \in Nat /\ d <= now /\ now <= d + MaxDelay /\ d \in spoken
  BY DispatchedNow DEF Begin, Hearing
<1>2. buf' = <<d>> /\ start' = now /\ lastSpeech' = now /\ UNCHANGED <<now, spoken>>
  BY DEF Begin
<1>3. Len(buf') = 1 /\ buf'[1] = d
  BY <1>2
<1>4. Started' /\ LastHeard'
  BY <1>1, <1>2, <1>3 DEF Started, LastHeard
<1>5. Short' /\ NoPause'
  BY <1>3 DEF Short, NoPause
<1> QED
  BY <1>4, <1>5 DEF Hearsay

LEMMA HearsayContinue ==
  ASSUME ListeningTypes, LineInv, Timely, Hearsay, Continue
  PROVE  Hearsay'
<1> PICK d, n : d = Dispatched /\ n = Len(buf) + 1
  OBVIOUS
<1>1. d \in Nat /\ d <= now /\ now <= d + MaxDelay
  BY DispatchedNow DEF Continue, Hearing
<1>2. /\ buf' = Append(buf, d) /\ UNCHANGED <<now, spoken, start>>
      /\ lastSpeech' = IF d \in spoken THEN now ELSE lastSpeech
  BY DEF Continue, SpeechTime
<1>3. now < lastSpeech' + Silence /\ now < start + MaxLength
  BY ListeningAssumption DEF Continue, Over, SpeechTime, ListeningTypes
<1>4. /\ n \in Nat /\ n >= 2 /\ Len(buf) = n - 1 /\ Len(buf') = n /\ buf'[n] = d
      /\ \A i \in 1 .. n - 1 : buf'[i] = buf[i] /\ buf[i] \in Nat
  BY <1>1, <1>2, AppendOf DEF Continue, ListeningTypes
<1>5. /\ now \in Nat /\ start \in Nat /\ lastSpeech \in Nat
      /\ Silence \in Nat \ {0} /\ MaxLength \in Nat \ {0} /\ MaxDelay \in Nat
  BY ListeningAssumption DEF ListeningTypes
<1>6. Started /\ LastHeard /\ Short /\ NoPause
  BY DEF Hearsay, Continue
<1>7. 1 \in 1 .. n - 1 /\ buf'[1] = buf[1] /\ buf[1] \in Nat
  BY <1>4
<1>8. Started'
  BY <1>2, <1>6, <1>7 DEF Started
<1>9. LastHeard'
  <2>1. PICK e \in 1 .. n - 1 : buf[e] \in spoken /\ lastSpeech <= buf[e] + MaxDelay
    BY <1>4, <1>6 DEF LastHeard
  <2>2. \E h \in 1 .. n : buf'[h] \in spoken' /\ lastSpeech' <= buf'[h] + MaxDelay
    <3>1. CASE d \in spoken
      BY <1>1, <1>2, <1>4, <3>1
    <3>2. CASE d \notin spoken
      BY <1>2, <1>4, <2>1, <3>2
    <3> QED
      BY <3>1, <3>2
  <2>3. ASSUME NEW i \in 1 .. n, buf'[i] \in spoken' PROVE buf'[i] <= lastSpeech'
    <3>1. CASE i = n
      BY <1>1, <1>2, <1>4, <2>3, <3>1
    <3>2. CASE i # n
      <4>1. i \in 1 .. n - 1 /\ buf'[i] = buf[i] /\ buf[i] \in Nat
        BY <1>4, <3>2
      <4>2. buf[i] <= lastSpeech
        BY <1>2, <1>4, <1>6, <2>3, <4>1 DEF LastHeard
      <4>3. buf[i] <= now
        BY <1>4, <4>1, PastBlocks
      <4> QED
        BY <1>2, <4>1, <4>2, <4>3
    <3> QED
      BY <3>1, <3>2
  <2> QED
    BY <1>4, <2>2, <2>3 DEF LastHeard
<1>10. Short'
  <2>1. ASSUME NEW h \in 2 .. n PROVE buf'[h] < buf'[1] + MaxLength + MaxDelay
    <3>1. CASE h = n
      BY <1>1, <1>3, <1>4, <1>5, <1>6, <1>7, <3>1 DEF Started
    <3>2. CASE h # n
      <4>1. h \in 2 .. n - 1 /\ h \in 1 .. n - 1
        BY <1>4, <3>2
      <4> QED
        BY <1>4, <1>6, <1>7, <4>1 DEF Short
    <3> QED
      BY <3>1, <3>2
  <2> QED
    BY <1>4, <2>1 DEF Short
<1>11. NoPause'
  <2>1. ASSUME NEW i \in 1 .. n, NEW h \in 1 .. n, i < h, buf'[i] \in spoken,
               \A g \in i + 1 .. h : buf'[g] \notin spoken
        PROVE  buf'[h] < buf'[i] + Silence + MaxDelay
    <3>1. i \in 1 .. n - 1 /\ buf'[i] = buf[i] /\ buf[i] \in Nat
      BY <1>4, <2>1
    <3>2. CASE h = n
      <4>1. d \notin spoken
        BY <1>4, <2>1, <3>2
      <4>2. PICK e \in 1 .. n - 1 : buf[e] \in spoken /\ lastSpeech <= buf[e] + MaxDelay
        BY <1>4, <1>6 DEF LastHeard
      <4>3. e <= i
        BY <1>4, <2>1, <3>1, <3>2, <4>2
      <4>4. buf[e] <= buf[i] /\ buf[e] \in Nat
        BY <1>4, <3>1, <4>3, PastBlocks
      <4> QED
        BY <1>1, <1>2, <1>3, <1>4, <1>5, <3>1, <3>2, <4>1, <4>2, <4>4
    <3>3. CASE h # n
      <4>1. h \in 1 .. n - 1 /\ buf'[h] = buf[h]
        BY <1>4, <3>3
      <4>2. \A g \in i + 1 .. h : buf[g] \notin spoken
        BY <1>4, <2>1, <4>1
      <4> QED
        BY <1>4, <1>6, <2>1, <3>1, <4>1, <4>2 DEF NoPause
    <3> QED
      BY <3>2, <3>3
  <2> QED
    BY <1>2, <1>4, <2>1 DEF NoPause
<1> QED
  BY <1>8, <1>9, <1>10, <1>11 DEF Hearsay

LEMMA HearsayNext ==
  ASSUME ListeningTypes, LineInv, Timely, Hearsay, [ListeningNext]_listeningVars
  PROVE  Hearsay'
<1>1. CASE CaptureOn \/ End
  BY <1>1 DEF CaptureOn, End, Hearsay
<1>2. CASE Begin \/ Continue
  BY <1>2, HearsayBegin, HearsayContinue
<1>3. CASE \/ CaptureOff \/ (\E b \in BOOLEAN : SetListening(b) \/ Capture(b))
           \/ IgnoreBlock \/ OnSegment \/ Transcribe \/ UNCHANGED listeningVars
  <2>1. UNCHANGED <<buf, start, lastSpeech>>
    BY <1>3 DEF CaptureOff, SetListening, Capture, IgnoreBlock, OnSegment, Transcribe, listeningVars, buffer
  <2>2. \A i \in 1 .. Len(buf) : buf[i] \in spoken' <=> buf[i] \in spoken
    BY PastBlocks, SpeechLater
  <2>3. buf # <<>> => 1 \in 1 .. Len(buf)
    BY DEF ListeningTypes
  <2>4. buf # <<>> => Started'
    BY <2>1, <2>2, <2>3 DEF Hearsay, Started
  <2>5. buf # <<>> => LastHeard'
    BY <2>1, <2>2 DEF Hearsay, LastHeard
  <2>6. buf # <<>> => Short'
    BY <2>1 DEF Hearsay, Short
  <2>7. ASSUME buf # <<>>, NEW i \in 1 .. Len(buf), NEW h \in 1 .. Len(buf), i < h,
               buf[i] \in spoken', \A g \in i + 1 .. h : buf[g] \notin spoken'
        PROVE  buf[h] < buf[i] + Silence + MaxDelay
    <3>1. \A g \in i + 1 .. h : g \in 1 .. Len(buf)
      BY DEF ListeningTypes
    <3>2. \A g \in i + 1 .. h : buf[g] \notin spoken
      BY <2>2, <2>7, <3>1
    <3> QED
      BY <2>2, <2>7, <3>2 DEF Hearsay, NoPause
  <2>8. buf # <<>> => NoPause'
    BY <2>1, <2>7 DEF NoPause
  <2> QED
    BY <2>1, <2>4, <2>5, <2>6, <2>8 DEF Hearsay
<1> QED
  BY <1>1, <1>2, <1>3 DEF ListeningNext

\* A segment that ends is well cut.
LEMMA EndIsCut ==
  ASSUME ListeningTypes, LineInv, Timely, Hearsay, End
  PROVE  WellCut(Append(buf, Dispatched))
<1> PICK d, n, s : d = Dispatched /\ n = Len(buf) + 1 /\ s = Append(buf, d)
  OBVIOUS
<1>1. d \in Nat /\ d <= now /\ now <= d + MaxDelay
  BY DispatchedNow DEF End, Hearing
<1>2. /\ n \in Nat /\ n >= 2 /\ Len(buf) = n - 1 /\ Len(s) = n /\ s[n] = d
      /\ \A i \in 1 .. n - 1 : s[i] = buf[i] /\ buf[i] \in Nat
  BY <1>1, AppendOf DEF End, ListeningTypes
<1>3. /\ now \in Nat /\ start \in Nat /\ lastSpeech \in Nat
      /\ Silence \in Nat \ {0} /\ MaxLength \in Nat \ {0} /\ MaxDelay \in Nat
  BY ListeningAssumption DEF ListeningTypes
<1>4. Started /\ LastHeard /\ Short /\ NoPause
  BY DEF Hearsay, End
<1>5. (d \notin spoken /\ now >= lastSpeech + Silence) \/ now >= start + MaxLength
  BY <1>3 DEF End, Over, SpeechTime
<1>6. 1 \in 1 .. n - 1 /\ s[1] = buf[1] /\ buf[1] \in Nat
  BY <1>2
<1>7. s[1] \in spoken
  BY <1>4, <1>6 DEF Started
<1>8. \/ \A i \in 1 .. n : s[i] \in spoken => d + MaxDelay >= s[i] + Silence
      \/ d + MaxDelay >= s[1] + MaxLength
  <2>1. CASE d \notin spoken /\ now >= lastSpeech + Silence
    <3>1. ASSUME NEW i \in 1 .. n, s[i] \in spoken PROVE d + MaxDelay >= s[i] + Silence
      <4>1. i \in 1 .. n - 1 /\ s[i] = buf[i] /\ buf[i] \in Nat
        BY <1>2, <2>1, <3>1
      <4>2. buf[i] <= lastSpeech
        BY <1>2, <1>4, <3>1, <4>1 DEF LastHeard
      <4> QED
        BY <1>1, <1>3, <2>1, <4>1, <4>2
    <3> QED
      BY <3>1
  <2>2. CASE now >= start + MaxLength
    <3>1. buf[1] <= start
      BY <1>4 DEF Started
    <3> QED
      BY <1>1, <1>3, <1>6, <2>2, <3>1
  <2> QED
    BY <1>5, <2>1, <2>2
<1>9. ASSUME Uninterrupted(s) PROVE d <= s[1] + MaxLength + MaxDelay
  <2>1. n - 1 \in 1 .. n - 1 /\ n - 1 + 1 = n
    BY <1>2
  <2>5. s[n - 1] = buf[n - 1] /\ buf[n - 1] \in Nat
    BY <1>2, <2>1
  <2>2. d = buf[n - 1] + 1
    BY <1>2, <1>9, <2>1, <2>5 DEF Uninterrupted
  <2>3. CASE n = 2
    BY <1>3, <1>6, <2>2, <2>3
  <2>4. CASE n > 2
    <3>1. n - 1 \in 2 .. Len(buf)
      BY <1>2, <2>4
    <3>2. buf[n - 1] < buf[1] + MaxLength + MaxDelay
      BY <1>4, <3>1 DEF Short
    <3> QED
      BY <1>3, <1>6, <2>2, <2>5, <3>2
  <2> QED
    BY <1>2, <2>3, <2>4
<1>10. ASSUME Uninterrupted(s), NEW i \in 1 .. n, NEW j \in 1 .. n, i < j, s[i] \in spoken,
              \A h \in 1 .. n : s[h] \in spoken => h <= i \/ h >= j
       PROVE  s[j] <= s[i] + Silence + MaxDelay
  <2>1. i \in 1 .. n - 1 /\ s[i] = buf[i] /\ buf[i] \in Nat
    BY <1>2, <1>10
  <2>2. j - 1 \in 1 .. n - 1 /\ s[j - 1] = buf[j - 1] /\ buf[j - 1] \in Nat /\ j - 1 + 1 = j
    BY <1>2, <1>10
  <2>3. s[j] = buf[j - 1] + 1
    BY <1>2, <1>10, <2>2 DEF Uninterrupted
  <2>4. CASE j - 1 = i
    BY <1>3, <2>1, <2>3, <2>4
  <2>5. CASE i < j - 1
    <3>1. ASSUME NEW g \in i + 1 .. j - 1 PROVE buf[g] \notin spoken
      <4>1. g \in 1 .. n - 1 /\ g \in 1 .. n /\ ~(g <= i \/ g >= j)
        BY <1>2, <1>10, <3>1
      <4> QED
        BY <1>2, <1>10, <4>1
    <3>2. buf[j - 1] < buf[i] + Silence + MaxDelay
      BY <1>2, <1>4, <1>10, <2>1, <2>2, <2>5, <3>1 DEF NoPause
    <3> QED
      BY <1>3, <2>1, <2>2, <2>3, <3>2
  <2> QED
    BY <1>2, <1>10, <2>4, <2>5
<1> DEFINE speech == {i \in 1 .. Len(s) : s[i] \in spoken}
<1>11. 1 \in speech
  BY <1>2, <1>7
<1>12. s[Len(s)] = d
  BY <1>2
<1>13. \/ \A i \in speech : s[Len(s)] + MaxDelay >= s[i] + Silence
       \/ s[Len(s)] + MaxDelay >= s[1] + MaxLength
  BY <1>2, <1>8, <1>12
<1>14. ASSUME Uninterrupted(s), NEW i \in speech, NEW j \in speech,
              i < j /\ \A h \in speech : h <= i \/ h >= j
       PROVE  s[j] <= s[i] + Silence + MaxDelay
  BY <1>2, <1>10, <1>14
<1>15. WellCut(s)
  BY <1>9, <1>11, <1>12, <1>13, <1>14 DEF WellCut
<1> QED
  BY <1>15

\* What is well cut stays so: the microphone adds only later speech.
LEMMA CutKept ==
  ASSUME ListeningTypes, [ListeningNext]_listeningVars, NEW s \in Seq(Nat), WellCut(s),
         \A i \in 1 .. Len(s) : s[i] <= now
  PROVE  WellCut(s)'
<1>1. \A i \in 1 .. Len(s) : s[i] \in Nat
  OBVIOUS
<1>2. \A i \in 1 .. Len(s) : s[i] \in spoken' <=> s[i] \in spoken
  BY <1>1, SpeechLater
<1> QED
  BY <1>2, StillCut

LEMMA AllCutNext ==
  ASSUME ListeningTypes, LineInv, CutInv, [ListeningNext]_listeningVars
  PROVE  AllCut'
<1>1. ASSUME NEW k \in 1 .. Len(ready), ready[k].kind # "block"
      PROVE  ready[k].blocks \in Seq(Nat) /\ WellCut(ready[k].blocks) /\ \E s : s = ready[k].blocks /\ WellCut(s)'
  <2> PICK s : s = ready[k].blocks
    OBVIOUS
  <2>1. ready[k] \in Calls
    BY DEF ListeningTypes
  <2>2. s \in Seq(Nat) /\ WellCut(s)
    BY <1>1, <2>1 DEF CutInv, AllCut, Calls
  <2>3. \A i \in 1 .. Len(s) : s[i] <= now
    BY <1>1, PastBlocks
  <2>4. WellCut(s)'
    BY <2>2, <2>3, CutKept
  <2> QED
    BY <2>2, <2>4
<1>2. ASSUME NEW k \in 1 .. Len(calls) PROVE \E s : s = calls[k] /\ WellCut(s)'
  <2> PICK s : s = calls[k]
    OBVIOUS
  <2>1. s \in Seq(Nat) /\ WellCut(s)
    BY DEF CutInv, AllCut, ListeningTypes
  <2>2. \A i \in 1 .. Len(s) : s[i] <= now
    BY PastBlocks
  <2>3. WellCut(s)'
    BY <2>1, <2>2, CutKept
  <2> QED
    BY <2>3
<1>3. ASSUME NEW k \in 1 .. Len(calls') PROVE WellCut(calls[k])'
  <2>1. CASE UNCHANGED calls
    <3> PICK s : s = calls[k] /\ WellCut(s)'
      BY <1>2, <2>1
    <3>1. calls'[k] = s
      BY <2>1
    <3> QED
      BY <3>1 DEF WellCut, Uninterrupted
  <2>2. CASE Transcribe
    <3> PICK r : r = ready[1].blocks
      OBVIOUS
    <3>1. ready # <<>> /\ ready[1].kind # "block" /\ calls' = Append(calls, r)
      BY <2>2, HeadOf DEF Transcribe, Recognise, Comes
    <3>2. 1 \in 1 .. Len(ready)
      BY <3>1 DEF ListeningTypes
    <3>3. r \in Seq(Nat) /\ WellCut(r)'
      BY <1>1, <3>1, <3>2
    <3>4. /\ Len(calls) \in Nat /\ Len(calls') = Len(calls) + 1 /\ calls'[Len(calls) + 1] = r
          /\ \A i \in 1 .. Len(calls) : calls'[i] = calls[i]
      BY <3>1, <3>3, AppendOf DEF ListeningTypes
    <3>5. PICK s : calls'[k] = s /\ WellCut(s)'
      <4>1. CASE k = Len(calls) + 1
        BY <3>3, <3>4, <4>1
      <4>2. CASE k # Len(calls) + 1
        BY <1>2, <3>4, <4>2
      <4> QED
        BY <4>1, <4>2
    <3> QED
      BY <3>5 DEF WellCut, Uninterrupted
  <2>3. CASE ~Transcribe
    <3>1. UNCHANGED calls
      BY <2>3 DEF ListeningNext, CaptureOn, CaptureOff, SetListening, Capture, IgnoreBlock, Begin, Continue,
             End, OnSegment, listeningVars, past
    <3> QED
      BY <2>1, <3>1
  <2> QED
    BY <2>2, <2>3
<1>4. ASSUME NEW k \in 1 .. Len(ready'), ready'[k].kind # "block" PROVE WellCut(ready[k].blocks)'
  <2>1. ASSUME NEW s, ready'[k].blocks = s, WellCut(s)' PROVE WellCut(ready[k].blocks)'
    BY <2>1 DEF WellCut, Uninterrupted
  <2>2. ASSUME NEW j \in 1 .. Len(ready), ready'[k] = ready[j] PROVE WellCut(ready[k].blocks)'
    BY <1>1, <1>4, <2>1, <2>2
  <2>3. CASE End /\ ready'[k] = SegmentCall(Append(buf, Dispatched))
    <3> PICK s, d : s = Append(buf, d) /\ d = Dispatched
      OBVIOUS
    <3>1. WellCut(s)
      BY <2>3, EndIsCut DEF CutInv
    <3>2. d \in Nat /\ d <= now
      BY <2>3, DispatchedNow DEF CutInv, End, Hearing
    <3>3. s \in Seq(Nat) /\ \A i \in 1 .. Len(s) : s[i] <= now
      <4>1. /\ s \in Seq(Nat) /\ Len(s) = Len(buf) + 1 /\ s[Len(buf) + 1] = d /\ Len(buf) \in Nat
            /\ \A i \in 1 .. Len(buf) : s[i] = buf[i]
        BY <3>2, AppendOf DEF ListeningTypes
      <4>2. \A i \in 1 .. Len(buf) : buf[i] <= now
        BY PastBlocks
      <4> QED
        BY <3>2, <4>1, <4>2
    <3>4. WellCut(s)'
      BY <3>1, <3>3, CutKept
    <3>5. ready'[k].blocks = s
      BY <2>3 DEF SegmentCall
    <3> QED
      BY <2>1, <3>4, <3>5
  <2>4. CASE OnSegment /\ ready'[k] = RecognitionCall(ready[1].blocks)
    <3>1. 1 \in 1 .. Len(ready) /\ ready[1].kind # "block" /\ ready'[k].blocks = ready[1].blocks
      BY <2>4, HeadOf DEF OnSegment, Comes, RecognitionCall, ListeningTypes
    <3> QED
      BY <1>1, <2>1, <3>1
  <2>5. ready'[k] # BlockCall(now')
    BY <1>4 DEF BlockCall
  <2> QED
    BY <2>2, <2>3, <2>4, <2>5, QueueFrom
<1> QED
  BY <1>3, <1>4 DEF AllCut

ListeningInv == ListeningTypes /\ LineInv /\ CutInv

LEMMA ListeningStarts ==
  ListeningInit => ListeningInv
<1> SUFFICES ASSUME ListeningInit PROVE ListeningInv
  OBVIOUS
<1>1. ListeningTypes
  BY DEF ListeningInit, ListeningTypes
<1>2. ready = <<>> /\ buf = <<>> /\ calls = <<>> /\ heard = {}
  BY DEF ListeningInit
<1>3. \A p, a : ~At(p, a)
  BY <1>2 DEF At
<1>4. LineInv
  BY <1>2, <1>3 DEF LineInv, InOrder, InPast, NoneLost
<1>5. CutInv
  BY <1>2 DEF CutInv, Timely, Hearsay, AllCut
<1> QED
  BY <1>1, <1>4, <1>5 DEF ListeningInv

LEMMA CutHolds == ListeningInv => CutAtSilence
<1> SUFFICES ASSUME ListeningInv, NEW p \in Called \cup Queued PROVE WellCut(p.blocks)
  BY DEF CutAtSilence
<1>1. CASE p \in Called
  BY <1>1 DEF Called, Piece, ListeningInv, CutInv, AllCut
<1>2. CASE p \in Queued
  BY <1>2 DEF Queued, Waiting, Piece, ListeningInv, CutInv, AllCut
<1> QED
  BY <1>1, <1>2

\* However long the loop makes its callbacks wait, commands are recognised in the order
\* in which they were spoken, no block of speech that was heard is lost or heard twice
\* (but for a buffer that start() replaces), and a command is cut only where the
\* speaker paused or spoke for too long, give or take that wait
\* (MicrophoneSource._capture_loop, CommandBuffer.feed, _transcribe_segment).
THEOREM CommandsAreWhole == ListeningSpec => []CommandsWhole
<1>1. ListeningInit => ListeningInv
  BY ListeningStarts
<1>2. ListeningInv /\ [ListeningNext]_listeningVars => ListeningInv'
  <2> SUFFICES ASSUME ListeningInv, [ListeningNext]_listeningVars PROVE ListeningInv'
    OBVIOUS
  <2>1. ListeningTypes /\ LineInv /\ CutInv /\ Timely /\ Hearsay
    BY DEF ListeningInv, CutInv
  <2>2. ListeningTypes' /\ LineInv'
    BY <2>1, ListeningTypesNext, LineNext
  <2>3. CutInv'
    BY <2>1, TimelyNext, HearsayNext, AllCutNext DEF CutInv
  <2> QED
    BY <2>2, <2>3 DEF ListeningInv
<1>3. ListeningInv => CommandsWhole
  BY CutHolds, HeardOnceHolds DEF CommandsWhole, ListeningInv
<1> QED
  BY <1>1, <1>2, <1>3, PTL DEF ListeningSpec

=============================================================================
