----------------------------- MODULE MediaPort -----------------------------
(***************************************************************************)
(* The audio of a call (media_port.cpp, and the callbacks that Call's      *)
(* constructor connects): frames that are heard go to the detector (Vad),  *)
(* audio that the agent synthesizes is queued and cut into frames, and     *)
(* what is queued is thrown away when the caller starts to speak.          *)
(*                                                                         *)
(* PJSIP's media thread asks for frames and delivers them, one at a time   *)
(* (external); the thread of the speech client queues audio, with no lock  *)
(* between the two.  Samples are numbered in the order they are queued; 0  *)
(* is silence.                                                             *)
(***************************************************************************)
EXTENDS Vad

CONSTANTS FrameSamples,  \* samples of a frame: frameSize / 2 = 160
          Chunks,        \* the lengths audio may come in, 0 included
          MaxSamples     \* bound of the model on the samples that are queued

ASSUME PortAssumption ==
  /\ FrameSamples \in Nat \ {0}
  /\ Chunks \subseteq Nat
  /\ MaxSamples \in Nat

VARIABLES
  audioQueue,      \* chunks that wait
  pcmBuffer,       \* the chunk being played
  pcmBufferIndex,  \* how many samples of it have been copied
  adding,          \* the chunk the client's thread is putting in the queue
  idle,            \* no frame is being filled
  temp,            \* the samples copied into the frame so far
  frame,           \* the frame last given to PJSIP
  played,          \* history: the last sample given to PJSIP
  queued,          \* number of samples that have come so far
  silenced,        \* how many had been queued when the queue was last cleared
  corrupt          \* the two threads have broken the queue

playVars == <<audioQueue, pcmBuffer, pcmBufferIndex, adding, idle, temp, frame,
              played, queued, silenced, corrupt>>
vars == <<vadVars, playVars>>

Samples == 1..MaxSamples
Run(from, to) == [i \in 1..(to - from) |-> from + i]

TypeOK ==
  /\ VadTypeOK
  /\ audioQueue \in Seq(Seq(Samples))
  /\ pcmBuffer \in Seq(Samples)
  /\ pcmBufferIndex \in 0..Len(pcmBuffer)
  /\ adding \in Seq(Samples)
  /\ idle \in BOOLEAN
  /\ temp \in Seq(Samples) /\ Len(temp) <= FrameSamples
  /\ frame \in Seq(Samples \cup {0}) /\ Len(frame) \in {0, FrameSamples}
  /\ played \in 0..queued
  /\ queued \in 0..MaxSamples
  /\ silenced \in 0..queued
  /\ corrupt \in BOOLEAN

Init ==
  /\ VadInit
  /\ audioQueue = <<>>
  /\ pcmBuffer = <<>>
  /\ pcmBufferIndex = 0
  /\ adding = <<>>
  /\ idle = TRUE
  /\ temp = <<>>
  /\ frame = <<>>
  /\ played = 0
  /\ queued = 0
  /\ silenced = 0
  /\ corrupt = FALSE

-----------------------------------------------------------------------------
(* The client's thread: addToQueue.                                        *)

\* An empty chunk is put in the queue in one step: it changes no sample.
BeginAdd ==
  /\ ~corrupt
  /\ adding = <<>>
  /\ \E n \in Chunks :
       /\ queued + n <= MaxSamples
       /\ queued' = queued + n
       /\ IF n = 0
            THEN audioQueue' = Append(audioQueue, <<>>) /\ UNCHANGED adding
            ELSE adding' = Run(queued, queued + n) /\ UNCHANGED audioQueue
  /\ Len(audioQueue) < MaxSamples
  /\ UNCHANGED <<vadVars, pcmBuffer, pcmBufferIndex, idle, temp, frame, played,
                 silenced, corrupt>>

EndAdd ==
  /\ ~corrupt
  /\ adding # <<>>
  /\ audioQueue' = Append(audioQueue, adding)
  /\ adding' = <<>>
  /\ UNCHANGED <<vadVars, pcmBuffer, pcmBufferIndex, idle, temp, frame, played, queued,
                 silenced, corrupt>>

-----------------------------------------------------------------------------
(* The media thread: onFrameRequested, one iteration of its loop at a time.*)

RequestFrame ==
  /\ ~corrupt
  /\ idle
  /\ idle' = FALSE
  /\ temp' = <<>>
  /\ UNCHANGED <<vadVars, audioQueue, pcmBuffer, pcmBufferIndex, adding, frame, played,
                 queued, silenced, corrupt>>

Filling == ~corrupt /\ ~idle /\ Len(temp) < FrameSamples
BufferUsed == pcmBufferIndex >= Len(pcmBuffer)

\* Mutant: the index of the previous chunk is kept.
TakeChunkKeepIndex ==
  /\ Filling
  /\ BufferUsed
  /\ audioQueue # <<>>
  /\ pcmBuffer' = Head(audioQueue)
  /\ audioQueue' = Tail(audioQueue)
  /\ UNCHANGED <<vadVars, pcmBufferIndex, adding, idle, temp, frame, played, queued,
                 silenced, corrupt>>

TakeChunk ==
  /\ Filling
  /\ BufferUsed
  /\ audioQueue # <<>>
  /\ pcmBuffer' = Head(audioQueue)
  /\ audioQueue' = Tail(audioQueue)
  /\ pcmBufferIndex' = 0
  /\ UNCHANGED <<vadVars, adding, idle, temp, frame, played, queued, silenced, corrupt>>

CopySamples ==
  /\ Filling
  /\ ~BufferUsed
  /\ LET missing == FrameSamples - Len(temp)
         left == Len(pcmBuffer) - pcmBufferIndex
         n == IF missing < left THEN missing ELSE left
     IN  /\ temp' = temp \o SubSeq(pcmBuffer, pcmBufferIndex + 1, pcmBufferIndex + n)
         /\ pcmBufferIndex' = pcmBufferIndex + n
  /\ UNCHANGED <<vadVars, audioQueue, pcmBuffer, adding, idle, frame, played, queued,
                 silenced, corrupt>>

\* Mutant: a chunk that ends before the frame is full ends the frame.
DeliverShortFrame ==
  /\ ~corrupt
  /\ ~idle
  /\ Len(temp) = FrameSamples \/ BufferUsed
  /\ frame' = temp \o [i \in 1..(FrameSamples - Len(temp)) |-> 0]
  /\ played' = IF temp = <<>> THEN played ELSE Last(temp)
  /\ idle' = TRUE
  /\ temp' = <<>>
  /\ UNCHANGED <<vadVars, audioQueue, pcmBuffer, pcmBufferIndex, adding, queued,
                 silenced, corrupt>>

\* The frame is full, or nothing is left to fill it but silence.
DeliverFrame ==
  /\ ~corrupt
  /\ ~idle
  /\ Len(temp) = FrameSamples \/ (BufferUsed /\ audioQueue = <<>>)
  /\ frame' = temp \o [i \in 1..(FrameSamples - Len(temp)) |-> 0]
  /\ played' = IF temp = <<>> THEN played ELSE Last(temp)
  /\ idle' = TRUE
  /\ temp' = <<>>
  /\ UNCHANGED <<vadVars, audioQueue, pcmBuffer, pcmBufferIndex, adding, queued,
                 silenced, corrupt>>

\* pop() or clearQueue() while the other thread is inside emplace(): a data
\* race, after which the queue may be anything.
Race ==
  /\ ~corrupt
  /\ adding # <<>>
  /\ \/ Filling /\ BufferUsed /\ audioQueue # <<>>
     \/ idle /\ received < MaxFrames /\ ~triggered /\ Mostly(Pushed(TRUE), TRUE)
  /\ corrupt' = TRUE
  /\ UNCHANGED <<vadVars, audioQueue, pcmBuffer, pcmBufferIndex, adding, idle,
                 temp, frame, played, queued, silenced>>

-----------------------------------------------------------------------------
(* The media thread: onFrameReceived.                                      *)

\* Mutant: the chunk being played is not thrown away.
ClearQueueOnly ==
  /\ audioQueue' = <<>>
  /\ silenced' = queued - Len(adding)
  /\ UNCHANGED <<pcmBuffer, pcmBufferIndex>>

ClearQueue ==
  /\ audioQueue' = <<>>
  /\ pcmBuffer' = <<>>
  /\ pcmBufferIndex' = 0
  /\ silenced' = queued - Len(adding)

\* The callback of speech started is clearQueue; that of a segment sends it to
\* the agent. A frame without data is ignored and is no step.
FrameReceived ==
  /\ ~corrupt
  /\ idle
  /\ \E v \in BOOLEAN :
       \/ StartSpeech(v) /\ ClearQueue
       \/ (Listen(v) \/ GoOn(v) \/ EndSpeech(v))
          /\ UNCHANGED <<audioQueue, pcmBuffer, pcmBufferIndex, silenced>>
  /\ UNCHANGED <<adding, idle, temp, frame, played, queued, corrupt>>

-----------------------------------------------------------------------------
\* What follows undefined behaviour is not modelled.
Halted ==
  /\ corrupt
  /\ UNCHANGED vars

Next ==
  \/ BeginAdd \/ EndAdd
  \/ RequestFrame \/ TakeChunk \/ CopySamples \/ DeliverFrame
  \/ Race
  \/ FrameReceived
  \/ Halted

\* PJSIP's clock asks for a frame every 20 ms, and a callback that began ends.
Fairness == WF_vars(RequestFrame) /\ WF_vars(TakeChunk \/ CopySamples \/ DeliverFrame)

Spec == Init /\ [][Next]_vars /\ Fairness

-----------------------------------------------------------------------------
(* Properties.                                                             *)

\* All the samples that are still to be played.
Pending ==
  SubSeq(pcmBuffer, pcmBufferIndex + 1, Len(pcmBuffer)) \o FlattenSeq(audioQueue) \o adding

\* Nothing that was queued is lost, doubled or reordered between chunks and
\* frames: the frame being filled and what is still to be played run on from
\* the last sample that was played, or from the last one the caller silenced,
\* to the sample that came last. (After a race nothing is known.)
NothingLost ==
  temp \o Pending = Run(IF played > silenced THEN played ELSE silenced, queued)

\* Silence is only put in a frame when nothing is left in the queue: audio that
\* has come is not torn apart at the end of a chunk.
NoGaps ==
  [][~idle /\ idle' /\ frame'[FrameSamples] = 0 =>
       audioQueue = <<>> /\ pcmBufferIndex = Len(pcmBuffer)]_vars

\* When the caller starts to speak, what was queued is never heard again: every
\* frame given to PJSIP later is silence or what came after.
CallerSilences ==
  [][frame' # frame =>
       \A i \in 1..FrameSamples : frame'[i] = 0 \/ frame'[i] > silenced]_vars

\* What was queued is played in the end, or thrown away because the caller
\* speaks, unless the two threads have broken the queue.
QueuedIsPlayed ==
  \A s \in Samples :
    (queued >= s /\ adding = <<>>) ~>
      corrupt \/ silenced >= s \/ \A i \in 1..Len(Pending) : Pending[i] # s

\* A chunk is played to its end, without silence put between its frames.
AudioIsPlayed ==
  /\ QueuedIsPlayed
  /\ NoGaps
=============================================================================
