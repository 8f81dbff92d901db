---------------------------- MODULE VoiceControl ----------------------------
(***************************************************************************)
(* The voice side of the always-alive runtime: the modes of                *)
(* runtime/always_alive.py, the audio state of voice/audio_state.py, and   *)
(* the speech handlers of voice/pipeline.py, pipeline_helpers.py and       *)
(* microphone.py that move it.                                             *)
(*                                                                         *)
(* An action of a handler is the code between two awaits.  Handlers of     *)
(* several transcripts and barge-ins are in flight together and all of     *)
(* them assign the one audio state.  Under `raphael server' the gateway,   *)
(* which calls set_mode, has a thread beside the loop that dispatches what *)
(* the microphone hears, so each assignment of set_mode is an action.      *)
(* The assistant state these handlers also assign is in Conversation.      *)
(*                                                                         *)
(* Capture is abstracted to two flags: the microphone runs, and frames it  *)
(* posted to the loop before it was stopped are still to be dispatched.    *)
(* Its threads and its devices, which may change while it is being         *)
(* stopped, are not modelled here.                                         *)
(*                                                                         *)
(* _handle_command is not modelled: it needs a wake event with a command   *)
(* text, the audio detector passes none, and nothing in the program calls  *)
(* process_transcript_segment.  So the conversation window never opens.    *)
(***************************************************************************)
EXTENDS Integers

CONSTANTS
  Handlers,     \* identities for the transcripts handled concurrently (a bound)
  BargeIns,     \* identities for the interrupt requests in flight (a bound)
  WakeWordOn,   \* config.voice.wake_word_enabled
  MicAvailable  \* an audio backend was found

ASSUME FlagsAssumption == WakeWordOn \in BOOLEAN /\ MicAvailable \in BOOLEAN

VARIABLES
  mode,      \* AlwaysAliveController._mode
  asm,       \* AudioStateMachine._state
  wwd,       \* WakeWordDetector.enabled
  mic,       \* the microphone captures
  late,      \* frames of before its last stop are still to be dispatched
  bgPaused,  \* background tasks are paused
  alive,     \* stop() has not been called
  target,    \* the mode set_mode was last called with
  spc,       \* what set_mode assigns next, or "done"
  hpc,       \* where the handler of each transcript is
  ipc        \* where each interrupt is

switching == <<target, spc>>
switches == <<mode, wwd, mic, late, bgPaused, alive>>
voiceVars == <<switches, switching, asm, hpc, ipc>>

Modes == {"NORMAL", "FOCUS", "PAUSE", "SLEEP", "EXIT"}
Private == {"PAUSE", "SLEEP"}
Transient == {"PROCESSING", "SPEAKING", "INTERRUPTED"}
Resting == {"AUDIO_IDLE", "WAKE_LISTENING", "COMMAND_LISTENING", "PAUSED"}

\* what a transcript may be: the wake phrase alone, one with a command, or neither
Speech == {"wake", "wake+command", "plain"}

\* the state after start(), before the gateway serves its first request
VoiceInit ==
  /\ mode = "NORMAL" /\ asm = "WAKE_LISTENING"
  /\ wwd = WakeWordOn /\ mic = MicAvailable /\ late = FALSE
  /\ bgPaused = FALSE /\ alive = TRUE
  /\ target = "NORMAL" /\ spc = "done"
  /\ hpc = [h \in Handlers |-> "free"]
  /\ ipc = [k \in BargeIns |-> "free"]

-----------------------------------------------------------------------------
(* Modes.  set_mode has no await before its last line, so of its calls,    *)
(* which all come from the gateway's loop, one is under way at a time.     *)

SetMode(m) ==
  /\ alive /\ spc = "done"
  /\ mode' = m
  /\ target' = m /\ spc' = "detector"
  /\ UNCHANGED <<asm, wwd, mic, late, bgPaused, alive, hpc, ipc>>

\* mutant: stopping the microphone is thought to be enough for a pause
SwitchDetectorUnlessPause ==
  /\ spc = "detector" /\ spc' = "mic"
  /\ wwd' = CASE target = "SLEEP"             -> FALSE
              [] target \in {"PAUSE", "FOCUS"} -> wwd
              [] OTHER                         -> WakeWordOn
  /\ bgPaused' = CASE target = "PAUSE"             -> bgPaused
                   [] target \in {"SLEEP", "FOCUS"} -> TRUE
                   [] OTHER                         -> FALSE
  /\ UNCHANGED <<mode, asm, mic, late, alive, target, hpc, ipc>>

\* FOCUS keeps the detector as the mode before left it, PAUSE the background
\* tasks; EXIT is treated like NORMAL.
SwitchDetector ==
  /\ spc = "detector" /\ spc' = "mic"
  /\ wwd' = CASE target \in Private -> FALSE
              [] target = "FOCUS"   -> wwd
              [] OTHER              -> WakeWordOn
  /\ bgPaused' = CASE target = "PAUSE"             -> bgPaused
                   [] target \in {"SLEEP", "FOCUS"} -> TRUE
                   [] OTHER                         -> FALSE
  /\ UNCHANGED <<mode, asm, mic, late, alive, target, hpc, ipc>>

\* MicrophoneSource.stop: frames already posted to the loop stay posted
MicOff == mic' = FALSE /\ late' = (late \/ mic)
MicOn == mic' = MicAvailable /\ UNCHANGED late

SwitchMic ==
  /\ spc = "mic" /\ spc' = "state"
  /\ IF target \in Private THEN MicOff ELSE MicOn
  /\ UNCHANGED <<mode, asm, wwd, bgPaused, alive, target, hpc, ipc>>

SwitchState ==
  /\ spc = "state" /\ spc' = "done"
  /\ asm' = CASE target = "SLEEP" -> "AUDIO_IDLE"
              [] target = "PAUSE" -> "PAUSED"
              [] OTHER            -> "WAKE_LISTENING"
  /\ UNCHANGED <<switches, target, hpc, ipc>>

\* stop(): handlers in flight go on, and so does a set_mode of the other thread
StopVoice ==
  /\ alive
  /\ alive' = FALSE /\ mode' = "EXIT" /\ MicOff
  /\ UNCHANGED <<asm, wwd, bgPaused, switching, hpc, ipc>>

-----------------------------------------------------------------------------
(* What is heard.                                                          *)

\* the loop has dispatched the frames of before the last stop
Drained ==
  /\ late /\ late' = FALSE
  /\ UNCHANGED <<mode, asm, wwd, mic, bgPaused, alive, switching, hpc, ipc>>

\* the audio detector fires, in whatever state: WAKE_DETECTED, then _on_wake
WakeWord ==
  /\ mic \/ late
  /\ wwd
  /\ asm' = "COMMAND_LISTENING"
  /\ UNCHANGED <<switches, switching, hpc, ipc>>

\* a command segment is cut and sent to the recogniser
Segment(h) ==
  /\ mic \/ late
  /\ asm = "COMMAND_LISTENING" /\ hpc[h] = "free"
  /\ hpc' = [hpc EXCEPT ![h] = "recognising"]
  /\ UNCHANGED <<switches, switching, asm, ipc>>

\* the recogniser answers with a text, or with nothing
Recognised(h) ==
  /\ hpc[h] = "recognising"
  /\ \E next \in Speech \cup {"free"} : hpc' = [hpc EXCEPT ![h] = next]
  /\ UNCHANGED <<switches, switching, asm, ipc>>

\* a client sends a final transcript over the websocket
Transcript(h) ==
  /\ alive /\ hpc[h] = "free"
  /\ \E said \in Speech : hpc' = [hpc EXCEPT ![h] = said]
  /\ UNCHANGED <<switches, switching, asm, ipc>>

-----------------------------------------------------------------------------
(* handle_speech_input, after its first publish.                           *)

\* mutant: the second of the two transitions is forgotten
AcknowledgeStops(h) ==
  /\ hpc[h] = "wake"
  /\ asm' = "WAKE_DETECTED"
  /\ hpc' = [hpc EXCEPT ![h] = "acknowledging"]
  /\ UNCHANGED <<switches, switching, ipc>>

\* The wake phrase alone: listen, and say so.  Neither the mode nor `enabled'
\* is looked at.
Acknowledge(h) ==
  /\ hpc[h] = "wake"
  /\ asm' = "COMMAND_LISTENING"
  /\ hpc' = [hpc EXCEPT ![h] = "acknowledging"]
  /\ UNCHANGED <<switches, switching, ipc>>

Acknowledged(h) ==
  /\ hpc[h] = "acknowledging"
  /\ hpc' = [hpc EXCEPT ![h] = "free"]
  /\ UNCHANGED <<switches, switching, asm, ipc>>

\* A command: after a wake phrase in any state, else when one is awaited.
Understand(h) ==
  /\ \/ hpc[h] = "wake+command"
     \/ hpc[h] = "plain" /\ asm = "COMMAND_LISTENING"
  /\ asm' = "PROCESSING"
  /\ hpc' = [hpc EXCEPT ![h] = "reasoning"]
  /\ UNCHANGED <<switches, switching, ipc>>

\* no wake phrase and no command awaited
Ignore(h) ==
  /\ hpc[h] = "plain" /\ asm # "COMMAND_LISTENING"
  /\ hpc' = [hpc EXCEPT ![h] = "free"]
  /\ UNCHANGED <<switches, switching, asm, ipc>>

\* mutant: the answer is announced and then spoken by a task of its own
RespondDetached(h) ==
  /\ hpc[h] = "reasoning"
  /\ asm' = "SPEAKING"
  /\ hpc' = [hpc EXCEPT ![h] = "free"]
  /\ UNCHANGED <<switches, switching, ipc>>

\* an answer: speak it
Respond(h) ==
  /\ hpc[h] = "reasoning"
  /\ asm' = "SPEAKING"
  /\ hpc' = [hpc EXCEPT ![h] = "speaking"]
  /\ UNCHANGED <<switches, switching, ipc>>

\* mutant: the state is given back only if it is still this command's
FinishIfSpeaking(h) ==
  /\ hpc[h] \in {"reasoning", "speaking"}
  /\ asm' = IF asm = "SPEAKING" THEN "WAKE_LISTENING" ELSE asm
  /\ hpc' = [hpc EXCEPT ![h] = "free"]
  /\ UNCHANGED <<switches, switching, ipc>>

\* The answer was spoken, or it was empty: _on_command's finally, which
\* assigns the state whatever it has become.
Finish(h) ==
  /\ hpc[h] \in {"reasoning", "speaking"}
  /\ asm' = "WAKE_LISTENING"
  /\ hpc' = [hpc EXCEPT ![h] = "free"]
  /\ UNCHANGED <<switches, switching, ipc>>

-----------------------------------------------------------------------------
(* interrupt: the cancel event it publishes has no subscriber, because     *)
(* start_listening, which subscribes the pipeline, is never called.        *)

Interrupt(k) ==
  /\ alive /\ ipc[k] = "free"
  /\ asm' = "INTERRUPTED"
  /\ ipc' = [ipc EXCEPT ![k] = "publishing"]
  /\ UNCHANGED <<switches, switching, hpc>>

\* back from the two publishes
Listen(k) ==
  /\ ipc[k] = "publishing"
  /\ asm' = "COMMAND_LISTENING"
  /\ ipc' = [ipc EXCEPT ![k] = "free"]
  /\ UNCHANGED <<switches, switching, hpc>>

-----------------------------------------------------------------------------
HandlerStep(h) ==
  \/ Recognised(h) \/ Acknowledge(h) \/ Acknowledged(h)
  \/ Understand(h) \/ Ignore(h) \/ Respond(h) \/ Finish(h)

VoiceNext ==
  \/ \E m \in Modes : SetMode(m)
  \/ SwitchDetector \/ SwitchMic \/ SwitchState
  \/ StopVoice \/ Drained \/ WakeWord
  \/ \E h \in Handlers : Segment(h) \/ Transcript(h) \/ HandlerStep(h)
  \/ \E k \in BargeIns : Interrupt(k) \/ Listen(k)

VoiceSpec == VoiceInit /\ [][VoiceNext]_voiceVars

\* Reasoning, recognition and speech all end (each has a timeout), and asyncio
\* runs every ready callback.
VoiceFairness ==
  /\ \A h \in Handlers : WF_voiceVars(HandlerStep(h))
  /\ \A k \in BargeIns : WF_voiceVars(Listen(k))

VoiceFairSpec == VoiceSpec /\ VoiceFairness

-----------------------------------------------------------------------------
(* Properties.                                                             *)

\* Types of the variables; the states WAKE_DETECTED and ERROR are never left
\* standing.
VoiceTypeOK ==
  /\ mode \in Modes /\ asm \in Transient \cup Resting
  /\ target \in Modes /\ spc \in {"done", "detector", "mic", "state"}
  /\ wwd \in BOOLEAN /\ mic \in BOOLEAN /\ late \in BOOLEAN /\ bgPaused \in BOOLEAN /\ alive \in BOOLEAN
  /\ hpc \in [Handlers -> {"free", "recognising", "acknowledging", "reasoning", "speaking"} \cup Speech]
  /\ ipc \in [BargeIns -> {"free", "publishing"}]

\* Somebody will take the audio state out of each state that is meant to pass:
\* PROCESSING and SPEAKING stand for a command that is being processed, SPEAKING
\* for one that is spoken, INTERRUPTED for a barge-in under way, however the
\* handlers that assign the state are interleaved.
TransientOwned ==
  /\ asm = "PROCESSING" => \E h \in Handlers : hpc[h] = "reasoning"
  /\ asm = "SPEAKING" => \E h \in Handlers : hpc[h] = "speaking"
  /\ asm = "INTERRUPTED" => \E k \in BargeIns : ipc[k] = "publishing"

\* the segments of sound that are with the recogniser
Recognising == {h \in Handlers : hpc[h] = "recognising"}

\* Once set_mode has set a mode that promises privacy, the microphone is deaf: the
\* detector does not fire and, when the frames of before the switch are dispatched,
\* no further sound goes to the recogniser, whichever modes came before (FOCUS keeps
\* the detector as it finds it) and whatever the loop did between the assignments of
\* set_mode.  It is not that nothing is acted on: what was with the recogniser
\* already, and transcripts that clients send, wake the assistant in every mode.
Deaf == ~WakeWord /\ (~late => Recognising' \subseteq Recognising)
PrivateModesDeaf == [][spc = "done" /\ mode \in Private => Deaf]_voiceVars

\* The audio state does not get stuck: each of those states is left for one that
\* listens, rests or is paused.
TransientEnds == asm \in Transient ~> asm \in Resting
=============================================================================
