----------------------------- MODULE Listening ------------------------------
(***************************************************************************)
(* How a spoken command becomes a transcript: the sound device hands a     *)
(* block of samples to the event loop every 30 ms                          *)
(* (MicrophoneSource._capture_loop), _dispatch gives it to the             *)
(* CommandBuffer while the assistant is in COMMAND_LISTENING, the buffer   *)
(* cuts what it hears into segments, and each segment is recognised        *)
(* (_on_command_segment, _transcribe_segment, voice/stt.py).               *)
(*                                                                         *)
(* All of this runs in callbacks of one loop, in the order in which they   *)
(* were asked for.  The loop may be late: a recogniser works on it without *)
(* a break.  Blocks are named by the time of their capture, but the buffer *)
(* takes the time at which it is given them.                               *)
(***************************************************************************)
EXTENDS Naturals, Sequences, SequencesExt

CONSTANTS
  Silence,    \* _silence_timeout, in blocks
  MaxLength,  \* _max_segment, in blocks
  MaxDelay,   \* bound on the time a callback waits for the loop
  MaxTime     \* bound on the time

ASSUME ListeningAssumption ==
  /\ Silence \in Nat \ {0} /\ MaxLength \in Nat \ {0}
  /\ MaxDelay \in Nat /\ MaxTime \in Nat

VARIABLES
  now,        \* the time, in blocks
  spoken,     \* the blocks that hold speech
  capturing,  \* _running: blocks are captured
  listening,  \* the audio state is COMMAND_LISTENING
  ready,      \* callbacks of the loop: blocks to dispatch, segments, recognitions
  buf,        \* _buf; speech is active when it is not empty
  start,      \* _seg_start_ts
  lastSpeech, \* _last_speech_ts
  calls,      \* kept for the properties: segments given to the recogniser
  heard,      \* blocks of speech dispatched while listening
  discarded   \* those in a buffer that start() replaced

buffer == <<buf, start, lastSpeech>>
past == <<calls, heard, discarded>>
listeningVars == <<now, spoken, capturing, listening, ready, buffer, past>>

BlockCall(t) == [kind |-> "block", at |-> t]
SegmentCall(s) == [kind |-> "segment", blocks |-> s]
RecognitionCall(s) == [kind |-> "recognition", blocks |-> s]

Comes(kind) == ready # <<>> /\ Head(ready).kind = kind
InTime == \A i \in 1 .. Len(ready) : ready[i].kind = "block" => now < ready[i].at + MaxDelay

ListeningInit ==
  /\ now = 0 /\ spoken = {} /\ capturing = FALSE /\ listening = FALSE
  /\ ready = <<>>
  /\ buf = <<>> /\ start = 0 /\ lastSpeech = 0
  /\ calls = <<>> /\ heard = {} /\ discarded = {}

-----------------------------------------------------------------------------
(* The microphone and the audio state.                                     *)

\* start() makes a new buffer
CaptureOn ==
  /\ ~capturing
  /\ capturing' = TRUE
  /\ buf' = <<>> /\ start' = 0 /\ lastSpeech' = 0
  /\ discarded' = discarded \cup ToSet(buf)
  /\ UNCHANGED <<now, spoken, listening, ready, calls, heard>>

CaptureOff ==
  /\ capturing
  /\ capturing' = FALSE
  /\ UNCHANGED <<now, spoken, listening, ready, buffer, past>>

\* a wake word, a barge-in, the end of a command: the buffer is not told
SetListening(b) ==
  /\ listening # b
  /\ listening' = b
  /\ UNCHANGED <<now, spoken, capturing, ready, buffer, past>>

\* time passes and the device delivers the next block
Capture(speech) ==
  /\ now < MaxTime /\ InTime
  /\ now' = now + 1
  /\ IF capturing
     THEN /\ ready' = Append(ready, BlockCall(now'))
          /\ spoken' = IF speech THEN spoken \cup {now'} ELSE spoken
     ELSE UNCHANGED <<ready, spoken>>
  /\ UNCHANGED <<capturing, listening, buffer, past>>

-----------------------------------------------------------------------------
(* The callbacks.  A block is ignored, begins a segment, continues or ends *)
(* it.                                                                     *)

Dispatched == Head(ready).at
Hearing == Comes("block") /\ listening
Heard == heard \cup ({Dispatched} \cap spoken)
SpeechTime == IF Dispatched \in spoken THEN now ELSE lastSpeech
Over == now >= SpeechTime + Silence \/ now >= start + MaxLength

IgnoreBlock ==
  /\ Comes("block")
  /\ listening => buf = <<>> /\ Dispatched \notin spoken
  /\ ready' = Tail(ready)
  /\ UNCHANGED <<now, spoken, capturing, listening, buffer, past>>

Begin ==
  /\ Hearing /\ buf = <<>> /\ Dispatched \in spoken
  /\ ready' = Tail(ready)
  /\ buf' = <<Dispatched>> /\ start' = now /\ lastSpeech' = now
  /\ heard' = Heard
  /\ UNCHANGED <<now, spoken, capturing, listening, calls, discarded>>

Continue ==
  /\ Hearing /\ buf # <<>> /\ ~Over
  /\ ready' = Tail(ready)
  /\ buf' = Append(buf, Dispatched) /\ lastSpeech' = SpeechTime
  /\ heard' = Heard
  /\ UNCHANGED <<now, spoken, capturing, listening, start, calls, discarded>>

\* mutant: the buffer is emptied before its blocks are copied
EndResetFirst ==
  /\ Hearing /\ buf # <<>> /\ Over
  /\ ready' = Append(Tail(ready), SegmentCall(<<Dispatched>>))
  /\ buf' = <<>> /\ start' = 0 /\ lastSpeech' = 0
  /\ heard' = Heard
  /\ UNCHANGED <<now, spoken, capturing, listening, calls, discarded>>

\* _finalize: the segment is scheduled behind the callbacks already waiting
End ==
  /\ Hearing /\ buf # <<>> /\ Over
  /\ ready' = Append(Tail(ready), SegmentCall(Append(buf, Dispatched)))
  /\ buf' = <<>> /\ start' = 0 /\ lastSpeech' = 0
  /\ heard' = Heard
  /\ UNCHANGED <<now, spoken, capturing, listening, calls, discarded>>

\* _on_command_segment starts a task, which waits for its turn
OnSegment ==
  /\ Comes("segment")
  /\ ready' = Append(Tail(ready), RecognitionCall(Head(ready).blocks))
  /\ UNCHANGED <<now, spoken, capturing, listening, buffer, past>>

\* no recogniser awaits anything, so none is called while another works
Recognise(s) == calls' = Append(calls, s)

\* the recognition and the start of handle_speech_input with its text, if there is
\* any, are one callback
Transcribe ==
  /\ Comes("recognition")
  /\ ready' = Tail(ready)
  /\ Recognise(Head(ready).blocks)
  /\ UNCHANGED <<now, spoken, capturing, listening, buffer, heard, discarded>>

ListeningNext ==
  \/ CaptureOn \/ CaptureOff
  \/ \E b \in BOOLEAN : SetListening(b) \/ Capture(b)
  \/ IgnoreBlock \/ Begin \/ Continue \/ End \/ OnSegment \/ Transcribe

ListeningSpec == ListeningInit /\ [][ListeningNext]_listeningVars

-----------------------------------------------------------------------------
(* Properties.                                                             *)

\* What was said, in pieces, from the first to the last: the segments recognised,
\* the recognitions and the segments that wait for the loop, and the buffer.
Piece(stage, nr, s) == [stage |-> stage, nr |-> nr, blocks |-> s]
Stage == [segment |-> 3, recognition |-> 2]
Waiting == {k \in 1 .. Len(ready) : ready[k].kind # "block"}
Called == {Piece(1, k, calls[k]) : k \in 1 .. Len(calls)}
Queued == {Piece(Stage[ready[k].kind], k, ready[k].blocks) : k \in Waiting}
Pieces == Called \cup Queued \cup {Piece(4, 0, buf)}

Before(p, q) == p.stage < q.stage \/ (p.stage = q.stage /\ p.nr < q.nr)
Increasing(s) == \A i, j \in 1 .. Len(s) : i < j => s[i] < s[j]
Precedes(s, r) == \A i \in 1 .. Len(s), j \in 1 .. Len(r) : s[i] < r[j]

\* Recognitions are called in the order of what was said, and every block of speech
\* heard while listening is in exactly one of them, or still in the buffer, unless
\* start() replaced the buffer.
HeardOnce ==
  /\ \A p \in Pieces : Increasing(p.blocks)
  /\ \A p, q \in Pieces : Before(p, q) => Precedes(p.blocks, q.blocks)
  /\ heard \subseteq discarded \cup UNION {ToSet(p.blocks) : p \in Pieces}

\* A command is cut only where the speaker was silent for the timeout, or at the
\* maximal length; when the loop is late, it may be off by that delay, not more.  A
\* command heard in one piece has no longer pause inside and is not longer than
\* allowed, with the same tolerance.
Uninterrupted(s) == \A i \in 1 .. Len(s) - 1 : s[i + 1] = s[i] + 1
WellCut(s) ==
  LET speech == {i \in 1 .. Len(s) : s[i] \in spoken}
      end == s[Len(s)]
  IN  /\ 1 \in speech
      /\ \/ \A i \in speech : end + MaxDelay >= s[i] + Silence
         \/ end + MaxDelay >= s[1] + MaxLength
      /\ Uninterrupted(s) =>
           /\ end <= s[1] + MaxLength + MaxDelay
           /\ \A i, j \in speech :
                (i < j /\ \A h \in speech : h <= i \/ h >= j) => s[j] <= s[i] + Silence + MaxDelay
CutAtSilence == \A p \in Called \cup Queued : WellCut(p.blocks)

CommandsWhole == HeardOnce /\ CutAtSilence
=============================================================================
