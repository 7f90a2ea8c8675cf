----------------------------- MODULE VadProofs -----------------------------
(***************************************************************************)
(* What is true of the voice activity detector (Vad) whatever the sizes of *)
(* its two buffers, the ratio, the number of frames and what WebRTC makes  *)
(* of each of them.                                                        *)
(*                                                                         *)
(* The ring and the voice buffer are runs of frames, each described by     *)
(* where it ends: the ring ends at the latest frame, and so does the voice *)
(* buffer until it is full.  A segment starts after the previous one       *)
(* because the ring, whose frames it starts with, is emptied at its end.   *)
(***************************************************************************)
EXTENDS Vad, SequenceTheorems, TLAPS

\* The frame that stands k places from the first one, and the empty frame 0
\* where the ring was filled before any frame came.
FrameAt(k) == IF k > 0 THEN k ELSE 0

\* The ring holds the latest frames, in order.
RingInv ==
  \A i \in 1..Len(ring) : ring[i].frame = FrameAt(received - Len(ring) + i)

\* The frames of the segment being spoken, and of the last one, are in order.
VoiceInv ==
  /\ voice # <<>> <=> triggered
  /\ Consecutive(voice) /\ Consecutive(segment)
  /\ \A i \in 1..Len(voice) : voice[i] <= received
  /\ voice # <<>> /\ Len(voice) < MaxBuffer => voice[Len(voice)] = received

\* What waits or is being spoken came after the last segment.
AfterInv ==
  segment # <<>> =>
    LET end == segment[Len(segment)]
    IN  /\ end <= received
        /\ voice # <<>> => voice[1] > end
        /\ ~triggered /\ ring # <<>> => ring[1].frame > end

\* Since the last segment ended, the ring has lost a frame only for want of
\* room.
LeadInv ==
  segment # <<>> /\ Len(segment) < MaxBuffer /\ ~triggered =>
    LET waiting == received - segment[Len(segment)]
    IN  Len(ring) = IF waiting < Padding THEN waiting ELSE Padding

\* The inductive invariant.
VadInv == VadTypeOK /\ RingInv /\ VoiceInv /\ AfterInv /\ LeadInv

-----------------------------------------------------------------------------
(* The two buffers.                                                        *)

\* After the next frame the ring is not empty, ends at that frame, and has
\* lost the oldest one if it was full (vadRingBuffer.push_back).
LEMMA PushedRing ==
  ASSUME VadTypeOK, RingInv, received < MaxFrames, NEW v \in BOOLEAN
  PROVE  /\ Pushed(v) \in Seq(Entries)
         /\ Len(Pushed(v)) = IF Len(ring) < Padding THEN Len(ring) + 1 ELSE Padding
         /\ \A i \in 1..Len(Pushed(v)) :
              Pushed(v)[i].frame = FrameAt(received + 1 - Len(Pushed(v)) + i)
<1> DEFINE entry == [frame |-> received + 1, voiced |-> v]
           full == Append(ring, entry)
<1>1. entry \in Entries /\ received \in Nat /\ Padding \in Nat \ {0}
  BY VadAssumption DEF VadTypeOK, Entries
<1>2. ring \in Seq(Entries) /\ Len(ring) \in Nat /\ Len(ring) <= Padding
  BY LenProperties DEF VadTypeOK
<1>3. /\ full \in Seq(Entries) /\ Len(full) = Len(ring) + 1 /\ full # <<>>
      /\ \A i \in 1..Len(ring) : full[i] = ring[i]
      /\ full[Len(ring) + 1] = entry
  <2> HIDE DEF entry
  <2> QED BY <1>1, <1>2, AppendProperties
<1>4. \A i \in 1..Len(full) : full[i].frame = FrameAt(received + 1 - Len(full) + i)
  <2> TAKE i \in 1..Len(full)
  <2>1. CASE i = Len(full)
    <3>1. full[i].frame = received + 1
      BY <2>1, <1>3
    <3> QED BY <3>1, <2>1, <1>1, <1>2, <1>3 DEF FrameAt
  <2>2. CASE i \in 1..Len(ring)
    <3>1. full[i].frame = FrameAt(received - Len(ring) + i)
      BY <2>2, <1>3 DEF RingInv
    <3>2. received - Len(ring) + i = received + 1 - Len(full) + i
      BY <2>2, <1>1, <1>2, <1>3
    <3> QED BY <3>1, <3>2
  <2> QED BY <2>1, <2>2, <1>2, <1>3
<1>5. CASE Len(full) <= Padding
  <2>1. Pushed(v) = full
    BY <1>5, <1>1, <1>2, <1>3 DEF Pushed
  <2> QED BY <2>1, <1>1, <1>2, <1>3, <1>4, <1>5
<1>6. CASE Len(full) > Padding
  <2>1. Pushed(v) = Tail(full)
    BY <1>6 DEF Pushed
  <2> HIDE DEF full
  <2>2. /\ Tail(full) \in Seq(Entries) /\ Len(Tail(full)) = Len(full) - 1
        /\ \A i \in 1..Len(Tail(full)) : Tail(full)[i] = full[i + 1]
    BY <1>3, HeadTailProperties
  <2>3. Len(full) = Padding + 1 /\ Len(ring) = Padding
    BY <1>6, <1>1, <1>2, <1>3
  <2>4. ASSUME NEW i \in 1..Len(Tail(full))
        PROVE  Tail(full)[i].frame = FrameAt(received + 1 - Len(Tail(full)) + i)
    <3>1. i + 1 \in 1..Len(full)
      BY <2>2, <2>3, <1>1
    <3>2. Tail(full)[i].frame = FrameAt(received + 1 - Len(full) + (i + 1))
      BY <3>1, <2>2, <1>4
    <3>3. received + 1 - Len(full) + (i + 1) = received + 1 - Len(Tail(full)) + i
      BY <2>2, <2>3, <1>1
    <3> QED BY <3>2, <3>3
  <2> QED BY <2>1, <2>2, <2>3, <2>4, <1>1
<1> QED BY <1>5, <1>6, <1>1, <1>2, <1>3

\* The voice buffer keeps the first frames it is given, MaxBuffer of them
\* (processVoicedFrame).
LEMMA KeptFrames ==
  ASSUME NEW S, NEW s \in Seq(S)
  PROVE  /\ Kept(s) \in Seq(S)
         /\ Len(Kept(s)) = IF Len(s) < MaxBuffer THEN Len(s) ELSE MaxBuffer
         /\ \A i \in 1..Len(Kept(s)) : Kept(s)[i] = s[i]
<1> DEFINE n == IF Len(s) < MaxBuffer THEN Len(s) ELSE MaxBuffer
<1>1. Len(s) \in Nat /\ n \in 0..Len(s) /\ n \in Int
  BY VadAssumption, LenProperties
<1>2. \A i \in 1..n : s[i] \in S
  BY <1>1, ElementOfSeq
<1> HIDE DEF n
<1>3. /\ SubSeq(s, 1, n) \in Seq(S)
      /\ Len(SubSeq(s, 1, n)) = IF 1 <= n THEN n - 1 + 1 ELSE 0
      /\ \A i \in 1..n - 1 + 1 : SubSeq(s, 1, n)[i] = s[1 + i - 1]
  BY <1>1, <1>2, SubSeqProperties
<1>4. Kept(s) = SubSeq(s, 1, n)
  BY DEF Kept, n
<1>5. Len(Kept(s)) = n
  BY <1>1, <1>3, <1>4
<1>6. \A i \in 1..n : Kept(s)[i] = s[i]
  BY <1>1, <1>3, <1>4
<1> QED BY <1>3, <1>4, <1>5, <1>6 DEF n

\* The frames of the ring (processVAD, which moves them to the voice buffer).
LEMMA FramesOf ==
  ASSUME NEW s \in Seq(Entries)
  PROVE  /\ Frames(s) \in Seq(0..MaxFrames) /\ Len(Frames(s)) = Len(s)
         /\ \A i \in 1..Len(s) : Frames(s)[i] = s[i].frame
<1>1. DOMAIN s = 1..Len(s) /\ Len(s) \in Nat
  BY LenProperties
<1>2. ASSUME NEW i \in 1..Len(s)
      PROVE  s[i].frame \in 0..MaxFrames
  <2>1. s[i] \in Entries
    BY ElementOfSeq
  <2> QED BY <2>1 DEF Entries
<1> QED BY <1>1, <1>2 DEF Frames

\* What one more frame makes of the segment being spoken: it begins as before
\* and is a run of frames that ends at the latest one unless the buffer is full.
LEMMA SpokenFrame ==
  ASSUME VadTypeOK, VoiceInv, triggered, received < MaxFrames
  PROVE  LET spoken == Kept(Append(voice, received + 1))
         IN  /\ spoken \in Seq(0..MaxFrames) /\ Len(spoken) \in 1..MaxBuffer
             /\ spoken[1] = voice[1]
             /\ Consecutive(spoken)
             /\ Len(spoken) < MaxBuffer => spoken[Len(spoken)] = received + 1
             /\ \A i \in 1..Len(spoken) : spoken[i] <= received + 1
<1> DEFINE full == Append(voice, received + 1)
<1>1. /\ voice \in Seq(0..MaxFrames) /\ Len(voice) \in Nat /\ Len(voice) <= MaxBuffer
      /\ voice # <<>>
      /\ received + 1 \in 0..MaxFrames /\ received \in Nat /\ MaxBuffer \in Nat \ {0}
  BY VadAssumption, LenProperties DEF VadTypeOK, VoiceInv
<1>2. Len(voice) > 0
  BY <1>1, EmptySeq
<1>3. /\ full \in Seq(0..MaxFrames) /\ Len(full) = Len(voice) + 1
      /\ \A i \in 1..Len(voice) : full[i] = voice[i]
      /\ full[Len(voice) + 1] = received + 1
  BY <1>1, AppendProperties
<1> HIDE DEF full
<1>4. /\ Kept(full) \in Seq(0..MaxFrames)
      /\ Len(Kept(full)) = IF Len(full) < MaxBuffer THEN Len(full) ELSE MaxBuffer
      /\ \A i \in 1..Len(Kept(full)) : Kept(full)[i] = full[i]
  BY <1>3, KeptFrames
<1>5. Len(Kept(full)) \in 1..MaxBuffer /\ Kept(full)[1] = voice[1]
  BY <1>1, <1>2, <1>3, <1>4
<1>6. Consecutive(Kept(full))
  <2> SUFFICES ASSUME NEW i \in 1..Len(Kept(full)) - 1, Kept(full)[i] # 0
               PROVE  Kept(full)[i + 1] = Kept(full)[i] + 1
    BY DEF Consecutive
  <2>1. i \in 1..Len(voice) /\ Kept(full)[i] = voice[i] /\ Kept(full)[i + 1] = full[i + 1]
    BY <1>1, <1>3, <1>4
  <2>2. CASE i = Len(voice)
    <3>1. Len(voice) < MaxBuffer
      BY <2>2, <1>1, <1>4, <1>5
    <3>2. voice[i] = received
      BY <2>2, <3>1, <1>1 DEF VoiceInv
    <3> QED BY <2>1, <2>2, <3>2, <1>3
  <2>3. CASE i \in 1..Len(voice) - 1
    <3>1. voice[i + 1] = voice[i] + 1
      BY <2>1, <2>3 DEF VoiceInv, Consecutive
    <3>2. full[i + 1] = voice[i + 1]
      BY <2>3, <1>1, <1>3
    <3> QED BY <2>1, <3>1, <3>2
  <2> QED BY <2>1, <2>2, <2>3, <1>1
<1>7. Len(Kept(full)) < MaxBuffer => Kept(full)[Len(Kept(full))] = received + 1
  BY <1>1, <1>2, <1>3, <1>4
<1>8. \A i \in 1..Len(Kept(full)) : Kept(full)[i] <= received + 1
  <2> SUFFICES ASSUME NEW i \in 1..Len(Kept(full))
               PROVE  Kept(full)[i] <= received + 1
    OBVIOUS
  <2>1. Kept(full)[i] = full[i] /\ i \in 1..Len(voice) + 1
    BY <1>1, <1>3, <1>4
  <2>2. CASE i \in 1..Len(voice)
    <3>1. voice[i] <= received /\ voice[i] \in 0..MaxFrames
      BY <2>2, <1>1, ElementOfSeq DEF VoiceInv
    <3> QED BY <3>1, <2>1, <2>2, <1>1, <1>3
  <2> QED BY <2>1, <2>2, <1>1, <1>3
<1> QED BY <1>4, <1>5, <1>6, <1>7, <1>8 DEF full

-----------------------------------------------------------------------------
(* The invariant holds.                                                    *)

\* The detector starts with a ring of empty frames.
LEMMA InitVadInv == VadInit => VadInv
<1> SUFFICES ASSUME VadInit PROVE VadInv
  OBVIOUS
<1>1. Padding \in Nat \ {0} /\ MaxBuffer \in Nat \ {0} /\ MaxFrames \in Nat
  BY VadAssumption
<1>2. [frame |-> 0, voiced |-> FALSE] \in Entries
  BY <1>1 DEF Entries
<1>3. ring \in Seq(Entries) /\ Len(ring) = Padding
  BY <1>1, <1>2 DEF VadInit
<1>4. VadTypeOK
  <2>1. <<>> \in Seq(0..MaxFrames) /\ Len(<<>>) = 0
    BY EmptySeq
  <2>2. voice = <<>> /\ segment = <<>> /\ triggered = FALSE /\ received = 0
    BY DEF VadInit
  <2>3. voice \in Seq(0..MaxFrames) /\ segment \in Seq(0..MaxFrames)
    BY <2>1, <2>2
  <2>4. Len(voice) <= MaxBuffer /\ Len(segment) <= MaxBuffer
    BY <2>1, <2>2, <1>1
  <2>5. triggered \in BOOLEAN
    BY <2>2
  <2>6. received \in 0..MaxFrames /\ Len(ring) <= Padding
    BY <2>2, <1>1, <1>3
  <2> QED BY <2>3, <2>4, <2>5, <2>6, <1>3 DEF VadTypeOK
<1>5. RingInv
  BY <1>1, <1>3 DEF VadInit, RingInv, FrameAt
<1>6. VoiceInv
  BY EmptySeq DEF VadInit, VoiceInv, Consecutive
<1>7. AfterInv /\ LeadInv
  BY DEF VadInit, AfterInv, LeadInv
<1> QED BY <1>4, <1>5, <1>6, <1>7 DEF VadInv

\* One frame, in which state it may come (processVAD).
LEMMA FrameStep ==
  ASSUME VadInv, NEW v \in BOOLEAN, processFrame(v)
  PROVE  VadInv'
<1>1. /\ VadTypeOK /\ RingInv /\ VoiceInv /\ AfterInv /\ LeadInv
      /\ received < MaxFrames /\ received' = received + 1
      /\ received \in Nat /\ MaxFrames \in Nat /\ received + 1 \in 0..MaxFrames
      /\ Padding \in Nat \ {0} /\ MaxBuffer \in Nat \ {0}
  <2>1. received < MaxFrames /\ received' = received + 1
    BY DEF processFrame, Listen, StartSpeech, GoOn, EndSpeech, Receive
  <2>2. received \in 0..MaxFrames
    BY DEF VadInv, VadTypeOK
  <2> QED BY <2>1, <2>2, VadAssumption DEF VadInv
<1>2. /\ Pushed(v) \in Seq(Entries)
      /\ Len(Pushed(v)) = IF Len(ring) < Padding THEN Len(ring) + 1 ELSE Padding
      /\ \A i \in 1..Len(Pushed(v)) :
           Pushed(v)[i].frame = FrameAt(received + 1 - Len(Pushed(v)) + i)
  BY <1>1, PushedRing
<1>3. ring \in Seq(Entries) /\ Len(ring) \in Nat /\ Len(ring) <= Padding
  BY <1>1, LenProperties DEF VadTypeOK
<1>4. Len(Pushed(v)) \in 1..Padding
  BY <1>1, <1>2, <1>3
<1>5. /\ voice \in Seq(0..MaxFrames) /\ Len(voice) <= MaxBuffer
      /\ segment \in Seq(0..MaxFrames) /\ Len(segment) <= MaxBuffer
      /\ Len(segment) \in Nat
  BY <1>1, LenProperties DEF VadTypeOK
<1>6. ASSUME segment # <<>>
      PROVE  /\ segment[Len(segment)] \in Nat
             /\ segment[Len(segment)] <= received
  BY <1>1, <1>5, <1>6, EmptySeq, ElementOfSeq DEF AfterInv
\* Unless somebody speaks, the ring still starts after the last segment.
<1>7. ASSUME ~triggered, segment # <<>>
      PROVE  /\ Pushed(v)[1].frame > segment[Len(segment)]
             /\ Pushed(v)[1].frame = received + 2 - Len(Pushed(v))
  <2> DEFINE end == segment[Len(segment)]
  <2>1. end \in Nat /\ end <= received
    BY <1>6, <1>7
  <2>2. Pushed(v)[1].frame = FrameAt(received + 1 - Len(Pushed(v)) + 1)
    BY <1>2, <1>4
  <2> HIDE DEF end
  <2>3. CASE ring = <<>>
    <3>1. Len(Pushed(v)) = 1
      BY <2>3, <1>1, <1>2
    <3> QED BY <3>1, <2>1, <2>2, <1>1 DEF FrameAt, end
  <2>4. CASE ring # <<>>
    <3>1. 1 \in 1..Len(ring)
      BY <2>4, <1>3, EmptySeq
    <3>2. ring[1].frame > end /\ ring[1].frame = FrameAt(received - Len(ring) + 1)
      BY <3>1, <2>4, <1>1, <1>7 DEF AfterInv, RingInv, end
    <3>3. received - Len(ring) + 1 > end
      BY <3>2, <2>1, <1>1, <1>3 DEF FrameAt
    <3>4. received + 1 - Len(Pushed(v)) + 1 >= received - Len(ring) + 1
      <4>1. CASE Len(ring) < Padding
        BY <4>1, <1>1, <1>2, <1>3
      <4>2. CASE Len(ring) = Padding
        BY <4>2, <1>1, <1>2, <1>3
      <4> QED BY <4>1, <4>2, <1>1, <1>3
    <3>5. received + 1 - Len(Pushed(v)) + 1 > end
      BY <3>3, <3>4, <2>1, <1>1, <1>3, <1>4
    <3> QED BY <3>5, <2>1, <2>2, <1>1, <1>4 DEF FrameAt, end
  <2> QED BY <2>3, <2>4
<1>8. Consecutive(segment)
  BY <1>1 DEF VoiceInv
<1>13. ASSUME ring' = Pushed(v)
       PROVE  RingInv'
  <2>1. \A i \in 1..Len(ring') : ring'[i].frame = FrameAt(received' - Len(ring') + i)
    <3> SUFFICES ASSUME NEW i \in 1..Len(Pushed(v))
                 PROVE  Pushed(v)[i].frame = FrameAt(received' - Len(Pushed(v)) + i)
      BY <1>13, Zenon
    <3>1. received' - Len(Pushed(v)) + i = received + 1 - Len(Pushed(v)) + i
      BY <1>1
    <3> QED BY <3>1, <1>2
  <2> QED BY <2>1 DEF RingInv
<1>9. CASE Listen(v)
  <2>1. /\ ~triggered /\ triggered' = triggered /\ ring' = Pushed(v)
        /\ voice' = voice /\ segment' = segment /\ voice = <<>>
    BY <1>9, <1>1 DEF Listen, VoiceInv
  <2>2. VadTypeOK'
    BY <2>1, <1>1, <1>2, <1>4, <1>5 DEF VadTypeOK
  <2>3. RingInv'
    BY <2>1, <1>13
  <2>4. VoiceInv'
    BY <2>1, <1>1, EmptySeq DEF VoiceInv
  <2>5. AfterInv'
    BY <2>1, <1>1, <1>6, <1>7 DEF AfterInv
  <2>6. LeadInv'
    BY <2>1, <1>1, <1>2, <1>3, <1>6 DEF LeadInv
  <2> QED BY <2>2, <2>3, <2>4, <2>5, <2>6 DEF VadInv
<1>10. CASE StartSpeech(v)
  <2> DEFINE spoken == Frames(Pushed(v))
  <2>1. /\ ~triggered /\ triggered' /\ ring' = <<>>
        /\ voice' = Kept(spoken) /\ segment' = segment
    BY <1>10 DEF StartSpeech
  <2>2. /\ spoken \in Seq(0..MaxFrames) /\ Len(spoken) = Len(Pushed(v))
        /\ \A i \in 1..Len(spoken) : spoken[i] = Pushed(v)[i].frame
    BY <1>2, FramesOf
  <2> HIDE DEF spoken
  <2>3. /\ Kept(spoken) \in Seq(0..MaxFrames)
        /\ Len(Kept(spoken)) = IF Len(spoken) < MaxBuffer THEN Len(spoken) ELSE MaxBuffer
        /\ \A i \in 1..Len(Kept(spoken)) : Kept(spoken)[i] = spoken[i]
    BY <2>2, KeptFrames
  <2>4. Len(Kept(spoken)) \in 1..MaxBuffer /\ Len(Kept(spoken)) <= Len(spoken)
    BY <2>2, <2>3, <1>1, <1>4
  <2>5. \A i \in 1..Len(Kept(spoken)) :
          Kept(spoken)[i] = FrameAt(received + 1 - Len(Pushed(v)) + i)
    <3> SUFFICES ASSUME NEW i \in 1..Len(Kept(spoken))
                 PROVE  Kept(spoken)[i] = FrameAt(received + 1 - Len(Pushed(v)) + i)
      OBVIOUS
    <3>0. Len(Kept(spoken)) <= Len(Pushed(v)) /\ Len(Kept(spoken)) \in Nat
          /\ Len(spoken) = Len(Pushed(v)) /\ Len(Pushed(v)) \in Nat
      BY <2>2, <2>4, <1>4
    <3>1. i \in 1..Len(Pushed(v)) /\ i \in 1..Len(spoken)
      BY <3>0
    <3> QED BY <3>1, <2>2, <2>3, <1>2
  <2>6. Kept(spoken) # <<>>
    <3>1. Len(Kept(spoken)) # 0
      BY <2>4
    <3> QED BY <3>1, EmptySeq
  <2>7. VadTypeOK'
    BY <2>1, <2>3, <2>4, <1>1, <1>5, EmptySeq DEF VadTypeOK
  <2>8. RingInv'
    BY <2>1, EmptySeq DEF RingInv
  <2>9. VoiceInv'
    <3>1. Consecutive(Kept(spoken))
      BY <2>4, <2>5, <1>1, <1>4, SMTT(20) DEF Consecutive, FrameAt
    <3>2. \A i \in 1..Len(Kept(spoken)) : Kept(spoken)[i] <= received + 1
      BY <2>2, <2>4, <2>5, <1>1, <1>4, SMTT(20) DEF FrameAt
    <3>3. Len(Kept(spoken)) < MaxBuffer => Kept(spoken)[Len(Kept(spoken))] = received + 1
      BY <2>2, <2>3, <2>4, <2>5, <1>1, <1>4, SMTT(20) DEF FrameAt
    <3> QED BY <3>1, <3>2, <3>3, <2>1, <2>6, <1>1, <1>8 DEF VoiceInv
  <2>10. AfterInv'
    <3> SUFFICES ASSUME segment # <<>>
                 PROVE  /\ segment[Len(segment)] <= received + 1
                        /\ Kept(spoken)[1] > segment[Len(segment)]
      BY <2>1, <1>1 DEF AfterInv
    <3>1. Kept(spoken)[1] = Pushed(v)[1].frame
      BY <2>2, <2>3, <2>4, <1>4
    <3> QED BY <3>1, <2>1, <1>1, <1>6, <1>7
  <2>11. LeadInv'
    BY <2>1 DEF LeadInv
  <2> QED BY <2>7, <2>8, <2>9, <2>10, <2>11 DEF VadInv
<1>11. CASE GoOn(v)
  <2> DEFINE spoken == Kept(Append(voice, received + 1))
  <2>1. /\ triggered /\ triggered' /\ ring' = Pushed(v)
        /\ voice' = spoken /\ segment' = segment /\ voice # <<>>
    BY <1>11, <1>1 DEF GoOn, VoiceInv
  <2>2. /\ spoken \in Seq(0..MaxFrames) /\ Len(spoken) \in 1..MaxBuffer
        /\ spoken[1] = voice[1]
        /\ Consecutive(spoken)
        /\ Len(spoken) < MaxBuffer => spoken[Len(spoken)] = received + 1
        /\ \A i \in 1..Len(spoken) : spoken[i] <= received + 1
    BY <2>1, <1>1, SpokenFrame
  <2> HIDE DEF spoken
  <2>3. spoken # <<>>
    BY <2>2, EmptySeq
  <2>4. VadTypeOK'
    BY <2>1, <2>2, <1>1, <1>2, <1>4, <1>5 DEF VadTypeOK
  <2>5. RingInv'
    BY <2>1, <1>13
  <2>6. VoiceInv'
    BY <2>1, <2>2, <2>3, <1>1, <1>8 DEF VoiceInv
  <2>7. AfterInv'
    BY <2>1, <2>2, <1>1, <1>6 DEF AfterInv
  <2>8. LeadInv'
    BY <2>1 DEF LeadInv
  <2> QED BY <2>4, <2>5, <2>6, <2>7, <2>8 DEF VadInv
<1>12. CASE EndSpeech(v)
  <2> DEFINE spoken == Kept(Append(voice, received + 1))
  <2>1. /\ triggered /\ ~triggered' /\ ring' = <<>>
        /\ voice' = <<>> /\ segment' = spoken /\ triggered' = FALSE
    BY <1>12 DEF EndSpeech
  <2>2. /\ spoken \in Seq(0..MaxFrames) /\ Len(spoken) \in 1..MaxBuffer
        /\ Consecutive(spoken)
        /\ Len(spoken) < MaxBuffer => spoken[Len(spoken)] = received + 1
        /\ \A i \in 1..Len(spoken) : spoken[i] <= received + 1
    BY <2>1, <1>1, SpokenFrame
  <2> HIDE DEF spoken
  <2>3. VadTypeOK'
    <3>1. <<>> \in Seq(Entries) /\ <<>> \in Seq(0..MaxFrames) /\ Len(<<>>) = 0
      BY EmptySeq
    <3>2. ring' \in Seq(Entries) /\ Len(ring') <= Padding
      BY <3>1, <2>1, <1>1
    <3>3. voice' \in Seq(0..MaxFrames) /\ Len(voice') <= MaxBuffer
      BY <3>1, <2>1, <1>1
    <3>4. segment' \in Seq(0..MaxFrames) /\ Len(segment') <= MaxBuffer
      BY <2>1, <2>2, <1>1
    <3> QED BY <3>2, <3>3, <3>4, <2>1, <1>1 DEF VadTypeOK
  <2>4. RingInv'
    BY <2>1, EmptySeq DEF RingInv
  <2>5. VoiceInv'
    BY <2>1, <2>2, EmptySeq DEF VoiceInv, Consecutive
  <2>6. AfterInv'
    BY <2>1, <2>2, <1>1 DEF AfterInv
  <2>7. LeadInv'
    BY <2>1, <2>2, <1>1, EmptySeq DEF LeadInv
  <2> QED BY <2>3, <2>4, <2>5, <2>6, <2>7 DEF VadInv
<1> QED BY <1>9, <1>10, <1>11, <1>12 DEF processFrame

\* Between frames nothing changes.
LEMMA VadStep ==
  ASSUME VadInv, [\E v \in BOOLEAN : processFrame(v)]_vadVars
  PROVE  VadInv'
<1>1. ASSUME UNCHANGED vadVars PROVE VadInv'
  BY <1>1
     DEF VadInv, VadTypeOK, RingInv, VoiceInv, AfterInv, LeadInv, Consecutive, vadVars
<1> QED BY <1>1, FrameStep

\* The invariant holds of every run of frames (processFrame).
THEOREM VadInvariant == VadSpec => []VadInv
BY InitVadInv, VadStep, PTL DEF VadSpec

-----------------------------------------------------------------------------
(* The properties.                                                         *)

\* The buffers keep their types and their sizes (vad.h: vadRingBuffer and
\* voiceBuffer, whose sizes push_back and processVoicedFrame bound).
THEOREM VadTypeCorrect == VadSpec => []VadTypeOK
<1>1. VadInv => VadTypeOK
  BY DEF VadInv
<1> QED BY <1>1, VadInvariant, PTL

\* A segment has no gap and no frame twice, and no two segments share a frame,
\* however speech starts and ends (processVAD, processVoicedFrame).
THEOREM SegmentsAlwaysRuns == VadSpec => []SegmentsAreRuns
<1>1. VadInv => SegmentsAreRuns
  BY DEF VadInv, VoiceInv, AfterInv, SegmentsAreRuns, Last
<1> QED BY <1>1, VadInvariant, PTL

\* While somebody speaks, every frame so far is in the segment, until the
\* buffer is full (processVoicedFrame).
THEOREM NothingIsMissed == VadSpec => []NothingMissed
<1>1. VadInv => NothingMissed
  BY DEF VadInv, VoiceInv, NothingMissed, Last
<1> QED BY <1>1, VadInvariant, PTL

\* A segment starts with what the ring holds: the Padding latest frames, or
\* all that came since the previous segment if they are fewer (processVAD).
THEOREM LeadInAlwaysKept == VadSpec => LeadInIsKept
<1> DEFINE Kind ==
      ~triggered /\ triggered' /\ segment # <<>> /\ Len(segment) < MaxBuffer =>
        voice'[1] = IF received' - Last(segment) >= Padding
                      THEN received' - Padding + 1
                      ELSE Last(segment) + 1
<1>1. ASSUME VadInv, NEW v \in BOOLEAN, processFrame(v)
      PROVE  Kind
  <2> SUFFICES ASSUME ~triggered, triggered', segment # <<>>, Len(segment) < MaxBuffer
               PROVE  voice'[1] = IF received' - Last(segment) >= Padding
                                    THEN received' - Padding + 1
                                    ELSE Last(segment) + 1
    BY DEF Kind
  <2> DEFINE end == segment[Len(segment)]
  <2>1. /\ VadTypeOK /\ RingInv /\ AfterInv /\ LeadInv
        /\ received < MaxFrames /\ received' = received + 1
        /\ voice' = Kept(Frames(Pushed(v)))
    BY <1>1 DEF VadInv, processFrame, Listen, StartSpeech, GoOn, EndSpeech, Receive
  <2>2. received \in Nat /\ Padding \in Nat \ {0} /\ MaxBuffer \in Nat \ {0}
    BY <2>1, VadAssumption DEF VadTypeOK
  <2>3. end \in Nat /\ end <= received
    <3>1. segment \in Seq(0..MaxFrames) /\ Len(segment) \in 1..Len(segment)
      BY <2>1, EmptySeq DEF VadTypeOK
    <3>2. end \in 0..MaxFrames
      BY <3>1, ElementOfSeq
    <3>3. end <= received
      BY <2>1 DEF AfterInv
    <3> QED BY <3>2, <3>3
  <2>4. /\ Pushed(v) \in Seq(Entries)
        /\ Len(Pushed(v)) = IF Len(ring) < Padding THEN Len(ring) + 1 ELSE Padding
        /\ \A i \in 1..Len(Pushed(v)) :
             Pushed(v)[i].frame = FrameAt(received + 1 - Len(Pushed(v)) + i)
    BY <2>1, PushedRing
  <2>5. Len(ring) = IF received - end < Padding THEN received - end ELSE Padding
    BY <2>1 DEF LeadInv
  <2>6. Len(Pushed(v)) = IF received + 1 - end < Padding THEN received + 1 - end ELSE Padding
    BY <2>2, <2>3, <2>4, <2>5
  <2>7. voice'[1] = Pushed(v)[1].frame
    <3>1. 1 \in 1..Len(Pushed(v))
      BY <2>2, <2>3, <2>6
    <3>2. /\ Frames(Pushed(v)) \in Seq(0..MaxFrames)
          /\ Len(Frames(Pushed(v))) = Len(Pushed(v))
          /\ Frames(Pushed(v))[1] = Pushed(v)[1].frame
      BY <3>1, <2>4, FramesOf
    <3>3. 1 \in 1..Len(Kept(Frames(Pushed(v))))
      BY <3>1, <3>2, <2>2, KeptFrames
    <3> QED BY <3>2, <3>3, <2>1, KeptFrames
  <2>8. voice'[1] = received + 2 - Len(Pushed(v))
    <3>1. 1 \in 1..Len(Pushed(v)) /\ received + 1 - Len(Pushed(v)) + 1 > 0
      BY <2>2, <2>3, <2>6
    <3>2. Pushed(v)[1].frame = received + 1 - Len(Pushed(v)) + 1
      BY <3>1, <2>4, SMTT(20) DEF FrameAt
    <3>3. received + 1 - Len(Pushed(v)) + 1 = received + 2 - Len(Pushed(v))
      BY <2>2, <2>3, <2>6, SMTT(20)
    <3> QED BY <3>2, <3>3, <2>7
  <2> QED BY <2>1, <2>2, <2>3, <2>6, <2>8 DEF Last
<1>2. UNCHANGED vadVars => Kind
  BY DEF vadVars
<1>3. VadInv /\ [\E v \in BOOLEAN : processFrame(v)]_vadVars => [Kind]_vadVars
  BY <1>1, <1>2
<1> QED BY <1>3, VadInvariant, PTL DEF VadSpec, LeadInIsKept
=============================================================================
