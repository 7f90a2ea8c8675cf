-------------------------------- MODULE Vad --------------------------------
(***************************************************************************)
(* The voice activity detector of a call (vad.cpp).  Frames are numbered   *)
(* in the order they come; whether one is voiced is decided by WebRTC      *)
(* (external, any outcome).  PJSIP's media thread is the only caller, so   *)
(* that bufferMutex is never waited for and processFrame is one step.      *)
(***************************************************************************)
EXTENDS Integers, FiniteSets, SequencesExt

CONSTANTS Padding,     \* PADDING_MS / FRAME_DURATION_MS = 40
          Ratio,       \* VAD_RATIO in percent = 85
          MaxBuffer,   \* MAX_BUFFER_SIZE = 10000
          MaxFrames    \* bound of the model on the frames that come

ASSUME VadAssumption ==
  /\ Padding \in Nat \ {0}
  /\ Ratio \in 1..99
  /\ MaxBuffer \in Nat \ {0}
  /\ MaxFrames \in Nat

VARIABLES
  ring,       \* vadRingBuffer: the latest frames, and whether each is voiced
  voice,      \* voiceBuffer: the frames of the segment that is being spoken
  triggered,  \* somebody is speaking
  received,   \* number of frames so far
  segment     \* the segment last given to the voice segment callback

vadVars == <<ring, voice, triggered, received, segment>>

Entries == [frame : 0..MaxFrames, voiced : BOOLEAN]

VadTypeOK ==
  /\ ring \in Seq(Entries) /\ Len(ring) <= Padding
  /\ voice \in Seq(0..MaxFrames) /\ Len(voice) <= MaxBuffer
  /\ triggered \in BOOLEAN
  /\ received \in 0..MaxFrames
  /\ segment \in Seq(0..MaxFrames) /\ Len(segment) <= MaxBuffer

\* The ring starts full of empty, unvoiced frames: frame 0 stands for them.
VadInit ==
  /\ ring = [i \in 1..Padding |-> [frame |-> 0, voiced |-> FALSE]]
  /\ voice = <<>>
  /\ triggered = FALSE
  /\ received = 0
  /\ segment = <<>>

-----------------------------------------------------------------------------
\* The ring after the next frame.
Pushed(v) ==
  LET full == Append(ring, [frame |-> received + 1, voiced |-> v])
  IN  IF Len(full) > Padding THEN Tail(full) ELSE full

\* The share is taken of what the ring holds, which is little after a clear().
Mostly(entries, v) ==
  100 * Cardinality({i \in DOMAIN entries : entries[i].voiced = v}) > Ratio * Len(entries)

\* voiceBuffer takes no frame once it is full.
Kept(frames) == SubSeq(frames, 1, IF Len(frames) < MaxBuffer THEN Len(frames) ELSE MaxBuffer)

Frames(entries) == [i \in DOMAIN entries |-> entries[i].frame]

Receive ==
  /\ received < MaxFrames
  /\ received' = received + 1

\* Nobody speaks: the frame waits in the ring.
Listen(v) ==
  /\ ~triggered
  /\ ~Mostly(Pushed(v), TRUE)
  /\ Receive
  /\ ring' = Pushed(v)
  /\ UNCHANGED <<voice, triggered, segment>>

\* Mutant: the frames that wait in the ring are not spoken.
StartSpeechNow(v) ==
  /\ ~triggered
  /\ Mostly(Pushed(v), TRUE)
  /\ Receive
  /\ triggered' = TRUE
  /\ voice' = <<received + 1>>
  /\ ring' = <<>>
  /\ UNCHANGED segment

\* Speech starts: the segment begins with all the ring holds.
StartSpeech(v) ==
  /\ ~triggered
  /\ Mostly(Pushed(v), TRUE)
  /\ Receive
  /\ triggered' = TRUE
  /\ voice' = Kept(Frames(Pushed(v)))
  /\ ring' = <<>>
  /\ UNCHANGED segment

\* Mutant: only voiced frames are kept.
GoOnVoiced(v) ==
  /\ triggered
  /\ ~Mostly(Pushed(v), FALSE)
  /\ Receive
  /\ voice' = IF v THEN Kept(Append(voice, received + 1)) ELSE voice
  /\ ring' = Pushed(v)
  /\ UNCHANGED <<triggered, segment>>

GoOn(v) ==
  /\ triggered
  /\ ~Mostly(Pushed(v), FALSE)
  /\ Receive
  /\ voice' = Kept(Append(voice, received + 1))
  /\ ring' = Pushed(v)
  /\ UNCHANGED <<triggered, segment>>

\* Mutant: the ring is not cleared at the end of a segment.
EndSpeechKeepRing(v) ==
  /\ triggered
  /\ Mostly(Pushed(v), FALSE)
  /\ Receive
  /\ segment' = Kept(Append(voice, received + 1))
  /\ triggered' = FALSE
  /\ voice' = <<>>
  /\ ring' = Pushed(v)

\* Speech ends: the segment goes to the agent, the next one starts afresh.
EndSpeech(v) ==
  /\ triggered
  /\ Mostly(Pushed(v), FALSE)
  /\ Receive
  /\ segment' = Kept(Append(voice, received + 1))
  /\ triggered' = FALSE
  /\ voice' = <<>>
  /\ ring' = <<>>

processFrame(v) == Listen(v) \/ StartSpeech(v) \/ GoOn(v) \/ EndSpeech(v)

VadSpec == VadInit /\ [][\E v \in BOOLEAN : processFrame(v)]_vadVars

-----------------------------------------------------------------------------
(* Properties.                                                             *)

\* Consecutive frames, after any of the empty ones the ring starts with.
Consecutive(s) == \A i \in 1..Len(s) - 1 : s[i] # 0 => s[i + 1] = s[i] + 1

\* A segment has no gap and no frame twice, and no frame is in two segments:
\* the one being spoken starts after the previous one ended.
SegmentsAreRuns ==
  /\ Consecutive(voice)
  /\ Consecutive(segment)
  /\ voice # <<>> /\ segment # <<>> => voice[1] > Last(segment)

\* While somebody speaks, the segment reaches up to the latest frame, unless
\* the buffer is full.
NothingMissed ==
  triggered => voice # <<>> /\ (Len(voice) < MaxBuffer => Last(voice) = received)

\* The lead-in is kept: a segment starts with the frame Padding - 1 before the
\* one that triggers it, or with the first one after the previous segment.
LeadInIsKept ==
  [][~triggered /\ triggered' /\ segment # <<>> /\ Len(segment) < MaxBuffer =>
       voice'[1] = IF received' - Last(segment) >= Padding
                     THEN received' - Padding + 1
                     ELSE Last(segment) + 1]_vadVars
=============================================================================
