-------------------------- MODULE MediaPortProofs --------------------------
(***************************************************************************)
(* What is true of the audio of a call (MediaPort) whatever the size of a  *)
(* frame, the lengths of the chunks, the number of samples and the frames  *)
(* that are heard.                                                         *)
(*                                                                         *)
(* The argument is that every sample that waits stands where its number    *)
(* says: the frame being filled, the rest of the chunk being played, the   *)
(* chunks of the queue and the one being added are runs of samples, each   *)
(* of which begins where the one before it ends.                           *)
(***************************************************************************)
EXTENDS MediaPort, VadProofs, WellFoundedInduction

\* The last sample that was played or silenced.
Start == IF played > silenced THEN played ELSE silenced

\* Where the chunk being played ends, and where the queue ends.
ChunkEnd == Start + Len(temp) + Len(pcmBuffer) - pcmBufferIndex
QueueEnd == queued - Len(adding)

\* The samples of s are those after sample n.
RunsFrom(s, n) == \A i \in 1..Len(s) : s[i] = n + i

\* Mark m[k] is the last sample of the k-th of some chunks, m[0] the one before
\* the first of them.
Marks(m, chunks) ==
  /\ m \in [0..Len(chunks) -> Nat]
  /\ \A j, k \in 0..Len(chunks) : j <= k => m[j] <= m[k]
  /\ \A k \in 1..Len(chunks) :
       m[k] = m[k - 1] + Len(chunks[k]) /\ RunsFrom(chunks[k], m[k - 1])

\* The frame being filled and the chunk being played.
FrameInv ==
  /\ idle => temp = <<>>
  /\ RunsFrom(temp, Start)
  /\ \A i \in pcmBufferIndex + 1..Len(pcmBuffer) :
       pcmBuffer[i] = Start + Len(temp) + (i - pcmBufferIndex)

\* The chunks that wait and the one that is being put in the queue.
QueueInv ==
  /\ RunsFrom(adding, QueueEnd)
  /\ QueueEnd >= 0
  /\ \E m : Marks(m, audioQueue) /\ m[0] = ChunkEnd /\ m[Len(audioQueue)] = QueueEnd

\* The inductive invariant.
IInv == VadInv /\ TypeOK /\ FrameInv /\ QueueInv

-----------------------------------------------------------------------------
(* Runs of samples.                                                        *)

\* A chunk that comes is the run of the samples it brings (addToQueue).
LEMMA RunProperties ==
  ASSUME NEW a \in Nat, NEW b \in Nat, a <= b
  PROVE  /\ Run(a, b) \in Seq(Nat) /\ Len(Run(a, b)) = b - a
         /\ RunsFrom(Run(a, b), a)
         /\ \A S : a + 1..b \subseteq S => Run(a, b) \in Seq(S)
<1>1. b - a \in Nat
  OBVIOUS
<1>2. \A i \in 1..(b - a) : a + i \in Nat /\ a + i \in a + 1..b
  OBVIOUS
<1>3. Run(a, b) \in Seq(Nat) /\ Len(Run(a, b)) = b - a
  BY <1>1, <1>2 DEF Run
<1>4. RunsFrom(Run(a, b), a)
  BY <1>1, <1>3 DEF Run, RunsFrom
<1>5. ASSUME NEW S, a + 1..b \subseteq S
      PROVE  Run(a, b) \in Seq(S)
  <2>1. \A i \in 1..(b - a) : a + i \in S
    BY <1>2, <1>5
  <2> QED BY <2>1, <1>1 DEF Run
<1> QED BY <1>3, <1>4, <1>5

\* A sequence of samples in order is the run from its first to its last one.
LEMMA RunIs ==
  ASSUME NEW a \in Nat, NEW s \in Seq(Nat), RunsFrom(s, a)
  PROVE  s = Run(a, a + Len(s))
<1>1. Len(s) \in Nat
  BY LenProperties
<1>2. /\ Run(a, a + Len(s)) \in Seq(Nat) /\ Len(Run(a, a + Len(s))) = a + Len(s) - a
      /\ RunsFrom(Run(a, a + Len(s)), a)
  <2> DEFINE b == a + Len(s)
  <2>1. b \in Nat /\ a <= b
    BY <1>1
  <2> HIDE DEF b
  <2>2. Run(a, b) \in Seq(Nat) /\ Len(Run(a, b)) = b - a /\ RunsFrom(Run(a, b), a)
    BY <2>1, RunProperties
  <2> QED BY <2>2 DEF b
<1>3. Len(Run(a, a + Len(s))) = Len(s)
  BY <1>1, <1>2
<1>4. \A i \in 1..Len(s) : s[i] = Run(a, a + Len(s))[i]
  BY <1>2, <1>3 DEF RunsFrom
<1> QED BY <1>2, <1>3, <1>4, SeqEqual

\* One run after another is a run.
LEMMA RunsConcat ==
  ASSUME NEW a \in Nat, NEW s \in Seq(Nat), NEW t \in Seq(Nat),
         RunsFrom(s, a), RunsFrom(t, a + Len(s))
  PROVE  /\ s \o t \in Seq(Nat) /\ Len(s \o t) = Len(s) + Len(t)
         /\ RunsFrom(s \o t, a)
<1>1. Len(s) \in Nat /\ Len(t) \in Nat
  BY LenProperties
<1>2. /\ s \o t \in Seq(Nat) /\ Len(s \o t) = Len(s) + Len(t)
      /\ \A i \in 1..Len(s) + Len(t) :
           (s \o t)[i] = IF i <= Len(s) THEN s[i] ELSE t[i - Len(s)]
  BY ConcatProperties
<1>3. ASSUME NEW i \in 1..Len(s) + Len(t)
      PROVE  (s \o t)[i] = a + i
  <2>1. CASE i <= Len(s)
    <3>1. i \in 1..Len(s)
      BY <2>1, <1>1
    <3> QED BY <3>1, <2>1, <1>2 DEF RunsFrom
  <2>2. CASE ~(i <= Len(s))
    <3>1. i - Len(s) \in 1..Len(t)
      BY <2>2, <1>1
    <3>2. t[i - Len(s)] = a + Len(s) + (i - Len(s))
      BY <3>1 DEF RunsFrom
    <3> QED BY <3>2, <2>2, <1>1, <1>2
  <2> QED BY <2>1, <2>2
<1> QED BY <1>2, <1>3 DEF RunsFrom

-----------------------------------------------------------------------------
(* The marks of the queue.                                                 *)

\* An empty queue ends where it begins.
LEMMA MarksEmpty ==
  ASSUME NEW a \in Nat
  PROVE  \E m : Marks(m, <<>>) /\ m[0] = a /\ m[Len(<<>>)] = a
<1> DEFINE m == [k \in 0..Len(<<>>) |-> a]
<1>1. Len(<<>>) = 0
  BY EmptySeq
<1>2. m \in [0..Len(<<>>) -> Nat] /\ \A k \in 0..Len(<<>>) : m[k] = a
  OBVIOUS
<1> HIDE DEF m
<1>3. Marks(m, <<>>)
  BY <1>1, <1>2 DEF Marks
<1> QED BY <1>1, <1>2, <1>3

\* A chunk that begins where the queue ends may be put in it (emplace).
LEMMA MarksAppend ==
  ASSUME NEW S, NEW q \in Seq(Seq(S)), NEW c \in Seq(S), NEW m,
         Marks(m, q), RunsFrom(c, m[Len(q)])
  PROVE  \E p : /\ Marks(p, Append(q, c))
               /\ p[0] = m[0]
               /\ p[Len(Append(q, c))] = m[Len(q)] + Len(c)
<1> DEFINE n == Len(q)
           p == [k \in 0..n + 1 |-> IF k = n + 1 THEN m[n] + Len(c) ELSE m[k]]
<1>1. n \in Nat /\ Len(c) \in Nat
  BY LenProperties
<1>2. /\ Append(q, c) \in Seq(Seq(S)) /\ Len(Append(q, c)) = n + 1
      /\ \A k \in 1..n : Append(q, c)[k] = q[k]
      /\ Append(q, c)[n + 1] = c
  BY AppendProperties
<1>3. /\ m \in [0..n -> Nat]
      /\ \A j, k \in 0..n : j <= k => m[j] <= m[k]
      /\ \A k \in 1..n : m[k] = m[k - 1] + Len(q[k]) /\ RunsFrom(q[k], m[k - 1])
  BY DEF Marks
<1>4. m[n] \in Nat /\ \A k \in 0..n : m[k] \in Nat /\ m[k] <= m[n]
  <2>1. n \in 0..n /\ \A k \in 0..n : k <= n
    BY <1>1
  <2> HIDE DEF n
  <2> QED BY <2>1, <1>3
<1>5. p[n + 1] = m[n] + Len(c) /\ \A k \in 0..n : p[k] = m[k]
  BY <1>1
<1>6. p \in [0..n + 1 -> Nat]
  BY <1>1, <1>4
<1> HIDE DEF p
<1>7. \A j, k \in 0..n + 1 : j <= k => p[j] <= p[k]
  <2> SUFFICES ASSUME NEW j \in 0..n + 1, NEW k \in 0..n + 1, j <= k
               PROVE  p[j] <= p[k]
    OBVIOUS
  <2>1. CASE k \in 0..n
    BY <2>1, <1>1, <1>3, <1>5
  <2>2. CASE k = n + 1 /\ j \in 0..n
    BY <2>2, <1>1, <1>4, <1>5
  <2>3. CASE k = n + 1 /\ j = n + 1
    BY <2>3, <1>1, <1>4, <1>5
  <2> QED BY <2>1, <2>2, <2>3, <1>1
<1>8. ASSUME NEW k \in 1..n + 1
      PROVE  /\ p[k] = p[k - 1] + Len(Append(q, c)[k])
             /\ RunsFrom(Append(q, c)[k], p[k - 1])
  <2>1. CASE k \in 1..n
    <3>1. k - 1 \in 0..n /\ k \in 0..n
      BY <2>1, <1>1
    <3> QED BY <3>1, <2>1, <1>2, <1>3, <1>5
  <2>2. CASE k = n + 1
    <3>1. k - 1 = n /\ n \in 0..n
      BY <2>2, <1>1
    <3> QED BY <3>1, <2>2, <1>2, <1>5
  <2> QED BY <2>1, <2>2, <1>1
<1>9. Marks(p, Append(q, c))
  BY <1>2, <1>6, <1>7, <1>8 DEF Marks
<1> QED BY <1>1, <1>2, <1>5, <1>9

\* The first chunk of the queue begins where the queue begins, and what is
\* left begins where that chunk ends (front, pop).
LEMMA MarksTail ==
  ASSUME NEW S, NEW q \in Seq(Seq(S)), q # <<>>, NEW m, Marks(m, q)
  PROVE  /\ RunsFrom(Head(q), m[0])
         /\ \E p : /\ Marks(p, Tail(q))
                  /\ p[0] = m[0] + Len(Head(q))
                  /\ p[Len(Tail(q))] = m[Len(q)]
<1> DEFINE n == Len(q)
           p == [k \in 0..n - 1 |-> m[k + 1]]
<1>1. n \in Nat \ {0}
  BY EmptySeq
<1>2. /\ Tail(q) \in Seq(Seq(S)) /\ Len(Tail(q)) = n - 1
      /\ \A k \in 1..n - 1 : Tail(q)[k] = q[k + 1]
  BY HeadTailProperties
<1>3. Head(q) = q[1]
  BY <1>1
<1>4. /\ m \in [0..n -> Nat]
      /\ \A j, k \in 0..n : j <= k => m[j] <= m[k]
      /\ \A k \in 1..n : m[k] = m[k - 1] + Len(q[k]) /\ RunsFrom(q[k], m[k - 1])
  BY DEF Marks
<1>5. RunsFrom(Head(q), m[0]) /\ m[1] = m[0] + Len(Head(q))
  <2>1. 1 \in 1..n /\ 1 - 1 = 0
    BY <1>1
  <2> QED BY <2>1, <1>3, <1>4
<1>6. \A k \in 0..n - 1 : k + 1 \in 0..n /\ p[k] = m[k + 1]
  BY <1>1
<1>7. p \in [0..n - 1 -> Nat]
  BY <1>4, <1>6
<1> HIDE DEF p
<1>8. \A j, k \in 0..n - 1 : j <= k => p[j] <= p[k]
  BY <1>1, <1>4, <1>6
<1>9. ASSUME NEW k \in 1..n - 1
      PROVE  p[k] = p[k - 1] + Len(Tail(q)[k]) /\ RunsFrom(Tail(q)[k], p[k - 1])
  <2>1. k + 1 \in 1..n /\ (k + 1) - 1 = k /\ k \in 0..n - 1
        /\ k - 1 \in 0..n - 1 /\ (k - 1) + 1 = k
    BY <1>1
  <2>2. p[k] = m[k + 1] /\ p[k - 1] = m[k] /\ Tail(q)[k] = q[k + 1]
    BY <2>1, <1>2, <1>6
  <2>3. m[k + 1] = m[k] + Len(q[k + 1]) /\ RunsFrom(q[k + 1], m[k])
    BY <2>1, <1>4
  <2> QED BY <2>2, <2>3
<1>10. Marks(p, Tail(q))
  BY <1>2, <1>7, <1>8, <1>9 DEF Marks
<1>11. p[0] = m[1] /\ p[n - 1] = m[n]
  BY <1>1, <1>6
<1> QED BY <1>2, <1>5, <1>10, <1>11

-----------------------------------------------------------------------------
(* FlattenSeq, whose recursion has one solution on chunks that have marks. *)

\* Every set of numbers that has a member has a smallest one.
LEMMA Smallest ==
  ASSUME NEW T, T \subseteq Nat, T # {}
  PROVE  \E n \in T : \A k \in T : n <= k
<1>1. PICK n \in T : \A k \in T : <<k, n>> \notin OpToRel(<, Nat)
  BY NatLessThanWellFounded, WFMin
<1>2. \A k \in T : ~(k < n)
  BY <1>1 DEF OpToRel
<1> QED BY <1>2

\* The chunks of the queue together are the run from where the first begins to
\* where the last ends.
LEMMA FlattenMarked ==
  ASSUME NEW q \in Seq(Seq(Nat)), NEW m, Marks(m, q)
  PROVE  FlattenSeq(q) = Run(m[0], m[Len(q)])
<1> DEFINE n == Len(q)
           IsFlatten(f) == f = [i \in 1..n |-> IF i = 1 THEN q[i] ELSE f[i - 1] \o q[i]]
           runs == [i \in 1..n |-> Run(m[0], m[i])]
<1>1. n \in Nat
  BY LenProperties
<1>2. /\ m \in [0..n -> Nat]
      /\ \A j, k \in 0..n : j <= k => m[j] <= m[k]
      /\ \A k \in 1..n : m[k] = m[k - 1] + Len(q[k]) /\ RunsFrom(q[k], m[k - 1])
  BY DEF Marks
<1>3. ASSUME NEW k \in 0..n
      PROVE  /\ m[k] \in Nat /\ m[0] \in Nat /\ m[0] <= m[k]
             /\ Run(m[0], m[k]) \in Seq(Nat)
             /\ Len(Run(m[0], m[k])) = m[k] - m[0]
             /\ RunsFrom(Run(m[0], m[k]), m[0])
  <2>1. 0 \in 0..n /\ 0 <= k
    BY <1>1
  <2>2. m[k] \in Nat /\ m[0] \in Nat /\ m[0] <= m[k]
    BY <2>1, <1>2
  <2> QED BY <2>2, RunProperties
<1>4. ASSUME NEW k \in 1..n
      PROVE  Run(m[0], m[k - 1]) \o q[k] = Run(m[0], m[k])
  <2>1. k - 1 \in 0..n /\ k \in 0..n
    BY <1>1
  <2>2. q[k] \in Seq(Nat) /\ Len(q[k]) \in Nat
    BY ElementOfSeq, LenProperties
  <2>3. /\ m[0] \in Nat /\ m[k - 1] \in Nat /\ m[k] \in Nat
        /\ Run(m[0], m[k - 1]) \in Seq(Nat)
        /\ Len(Run(m[0], m[k - 1])) = m[k - 1] - m[0]
        /\ RunsFrom(Run(m[0], m[k - 1]), m[0])
    BY <2>1, <1>3
  <2>4. m[0] + Len(Run(m[0], m[k - 1])) = m[k - 1]
    BY <2>3
  <2>5. m[k] = m[k - 1] + Len(q[k]) /\ RunsFrom(q[k], m[k - 1])
    BY <1>2
  <2> DEFINE both == Run(m[0], m[k - 1]) \o q[k]
  <2>6. /\ both \in Seq(Nat) /\ RunsFrom(both, m[0])
        /\ Len(both) = Len(Run(m[0], m[k - 1])) + Len(q[k])
    BY <2>2, <2>3, <2>4, <2>5, RunsConcat
  <2> HIDE DEF both
  <2>7. m[0] + Len(both) = m[k]
    <3>1. Len(both) = (m[k - 1] - m[0]) + Len(q[k])
      BY <2>3, <2>6
    <3>2. \A a, b, c \in Nat : a + ((b - a) + c) = b + c
      OBVIOUS
    <3>3. m[0] + ((m[k - 1] - m[0]) + Len(q[k])) = m[k - 1] + Len(q[k])
      BY <3>2, <2>2, <2>3, Zenon
    <3> QED BY <3>1, <3>3, <2>5
  <2>8. both = Run(m[0], m[0] + Len(both))
    BY <2>3, <2>6, RunIs
  <2> QED BY <2>7, <2>8 DEF both
<1>5. ASSUME NEW k \in 1..n, k = 1
      PROVE  Run(m[0], m[k]) = q[k]
  <2>1. q[1] \in Seq(Nat) /\ m[0] \in Nat /\ RunsFrom(q[1], m[0]) /\ m[1] = m[0] + Len(q[1])
    <3>1. 1 \in 1..n /\ 1 - 1 = 0 /\ 0 \in 0..n
      BY <1>1, <1>5
    <3> QED BY <3>1, <1>2, <1>3, ElementOfSeq
  <2> QED BY <2>1, <1>5, RunIs
<1>6. IsFlatten(runs)
  <2>1. ASSUME NEW i \in 1..n
        PROVE  runs[i] = IF i = 1 THEN q[i] ELSE runs[i - 1] \o q[i]
    <3>1. CASE i = 1
      BY <3>1, <1>5
    <3>2. CASE i # 1
      <4>1. i - 1 \in 1..n
        BY <3>2, <1>1
      <4>2. runs[i - 1] = Run(m[0], m[i - 1])
        BY <4>1
      <4> QED BY <3>2, <4>2, <1>4
    <3> QED BY <3>1, <3>2
  <2> QED BY <2>1
<1>7. ASSUME NEW f, IsFlatten(f)
      PROVE  \A i \in 1..n : f[i] = Run(m[0], m[i])
  <2> DEFINE wrong == {i \in 1..n : f[i] # Run(m[0], m[i])}
  <2> SUFFICES ASSUME wrong # {} PROVE FALSE
    OBVIOUS
  <2>1. PICK i \in wrong : \A k \in wrong : i <= k
    <3>1. wrong \subseteq Nat
      BY <1>1
    <3> HIDE DEF wrong
    <3> QED BY <3>1, Smallest
  <2>2. f[i] = IF i = 1 THEN q[i] ELSE f[i - 1] \o q[i]
    BY <2>1, <1>7
  <2>3. CASE i = 1
    BY <2>1, <2>2, <2>3, <1>5
  <2>4. CASE i # 1
    <3>1. i - 1 \in 1..n /\ i - 1 \notin wrong
      BY <2>1, <2>4, <1>1
    <3>2. f[i - 1] = Run(m[0], m[i - 1])
      BY <3>1
    <3> QED BY <2>1, <2>2, <2>4, <3>2, <1>4
  <2> QED BY <2>3, <2>4
<1>8. CASE q = <<>>
  <2>1. n = 0 /\ FlattenSeq(q) = <<>>
    BY <1>8, EmptySeq DEF FlattenSeq
  <2>2. 0 \in 0..n /\ m[n] = m[0]
    BY <2>1
  <2>3. Run(m[0], m[n]) \in Seq(Nat) /\ Len(Run(m[0], m[n])) = m[n] - m[0] /\ m[0] \in Nat
    BY <2>2, <1>3
  <2>4. Run(m[0], m[n]) = <<>>
    BY <2>2, <2>3, EmptySeq
  <2> QED BY <2>1, <2>4
<1>9. CASE q # <<>>
  <2>1. n # 0 /\ n \in 1..n
    BY <1>1, <1>9, EmptySeq
  <2> DEFINE flatten == CHOOSE f : IsFlatten(f)
  <2>2. FlattenSeq(q) = flatten[n]
    BY <2>1 DEF FlattenSeq
  <2> HIDE DEF IsFlatten
  <2>3. IsFlatten(flatten)
    BY <1>6
  <2>4. flatten[n] = Run(m[0], m[n])
    BY <2>1, <2>3, <1>7
  <2> QED BY <2>2, <2>4
<1> QED BY <1>8, <1>9

-----------------------------------------------------------------------------
(* The invariant holds.                                                    *)

\* What the types say of the numbers the argument is about.
LEMMA Numbers ==
  ASSUME TypeOK
  PROVE  /\ Samples \subseteq Nat /\ FrameSamples \in Nat \ {0}
         /\ audioQueue \in Seq(Seq(Samples)) /\ Len(audioQueue) \in Nat
         /\ pcmBuffer \in Seq(Samples) /\ Len(pcmBuffer) \in Nat
         /\ pcmBufferIndex \in Nat /\ pcmBufferIndex <= Len(pcmBuffer)
         /\ adding \in Seq(Samples) /\ Len(adding) \in Nat
         /\ temp \in Seq(Samples) /\ Len(temp) \in Nat /\ Len(temp) <= FrameSamples
         /\ played \in Nat /\ queued \in Nat /\ silenced \in Nat
         /\ played <= queued /\ silenced <= queued /\ queued <= MaxSamples
         /\ Start \in Nat /\ played <= Start /\ silenced <= Start
         /\ Start = played \/ Start = silenced
<1>1. MaxSamples \in Nat /\ FrameSamples \in Nat \ {0}
  BY PortAssumption
<1>2. Samples \subseteq Nat
  BY <1>1 DEF Samples
<1>3. /\ audioQueue \in Seq(Seq(Samples)) /\ Len(audioQueue) \in Nat
      /\ pcmBuffer \in Seq(Samples) /\ Len(pcmBuffer) \in Nat
      /\ adding \in Seq(Samples) /\ Len(adding) \in Nat
      /\ temp \in Seq(Samples) /\ Len(temp) \in Nat /\ Len(temp) <= FrameSamples
  BY LenProperties DEF TypeOK
<1>4. /\ pcmBufferIndex \in 0..Len(pcmBuffer)
      /\ queued \in 0..MaxSamples /\ played \in 0..queued /\ silenced \in 0..queued
  BY DEF TypeOK
<1>5. pcmBufferIndex \in Nat /\ pcmBufferIndex <= Len(pcmBuffer)
  BY <1>3, <1>4
<1>6. /\ played \in Nat /\ queued \in Nat /\ silenced \in Nat
      /\ played <= queued /\ silenced <= queued /\ queued <= MaxSamples
  BY <1>1, <1>4
<1>7. /\ Start \in Nat /\ played <= Start /\ silenced <= Start
      /\ Start = played \/ Start = silenced
  BY <1>6 DEF Start
<1> QED BY <1>1, <1>2, <1>3, <1>5, <1>6, <1>7

\* The frame, the chunk and the queue end in this order.
LEMMA Ends ==
  ASSUME IInv
  PROVE  /\ ChunkEnd \in Nat /\ QueueEnd \in Nat
         /\ Start + Len(temp) <= ChunkEnd /\ ChunkEnd <= QueueEnd /\ QueueEnd <= queued
<1>1. TypeOK /\ QueueInv
  BY DEF IInv
<1>2. PICK m : /\ Marks(m, audioQueue)
               /\ m[0] = ChunkEnd /\ m[Len(audioQueue)] = QueueEnd
  BY <1>1 DEF QueueInv
<1>3. m[0] <= m[Len(audioQueue)]
  <2>1. Len(audioQueue) \in Nat
    BY <1>1, Numbers
  <2>2. 0 \in 0..Len(audioQueue) /\ Len(audioQueue) \in 0..Len(audioQueue)
        /\ 0 <= Len(audioQueue)
    BY <2>1
  <2> QED BY <2>2, <1>2 DEF Marks
<1>4. ChunkEnd \in Nat /\ Start + Len(temp) <= ChunkEnd
  BY <1>1, Numbers, SMTT(20) DEF ChunkEnd
<1>5. QueueEnd \in Nat /\ QueueEnd <= queued
  BY <1>1, Numbers, SMTT(20) DEF QueueEnd, QueueInv
<1> QED BY <1>2, <1>3, <1>4, <1>5

\* A call begins with nothing to play (the constructor of MediaPort).
LEMMA InitIInv == Init => IInv
<1> SUFFICES ASSUME Init PROVE IInv
  OBVIOUS
<1>1. VadInv
  BY InitVadInv DEF Init
<1>2. Len(<<>>) = 0 /\ \A S : <<>> \in Seq(S)
  BY EmptySeq
<1>3. /\ audioQueue = <<>> /\ pcmBuffer = <<>> /\ adding = <<>> /\ temp = <<>> /\ frame = <<>>
      /\ pcmBufferIndex = 0 /\ played = 0 /\ queued = 0 /\ silenced = 0
  BY DEF Init
<1>4. TypeOK
  <2>1. VadTypeOK
    BY <1>1 DEF VadInv
  <2>2. audioQueue \in Seq(Seq(Samples))
    BY <1>2, <1>3
  <2>3. pcmBuffer \in Seq(Samples) /\ adding \in Seq(Samples)
    BY <1>2, <1>3
  <2>4. temp \in Seq(Samples) /\ Len(temp) <= FrameSamples
    BY <1>2, <1>3, PortAssumption
  <2>5. frame \in Seq(Samples \cup {0}) /\ Len(frame) \in {0, FrameSamples}
    BY <1>2, <1>3
  <2>6. /\ pcmBufferIndex \in 0..Len(pcmBuffer)
        /\ played \in 0..queued /\ queued \in 0..MaxSamples /\ silenced \in 0..queued
    BY <1>2, <1>3, PortAssumption
  <2>7. idle \in BOOLEAN /\ corrupt \in BOOLEAN
    BY DEF Init
  <2> QED BY <2>1, <2>2, <2>3, <2>4, <2>5, <2>6, <2>7 DEF TypeOK
<1>5. Start = 0 /\ ChunkEnd = 0 /\ QueueEnd = 0
  <2>1. Len(temp) = 0 /\ Len(pcmBuffer) = 0 /\ Len(adding) = 0
    BY <1>2, <1>3
  <2> QED BY <2>1, <1>3 DEF Start, ChunkEnd, QueueEnd
<1>6. FrameInv
  BY <1>2, <1>3 DEF FrameInv, RunsFrom
<1>7. QueueInv
  <2>1. \E m : Marks(m, <<>>) /\ m[0] = 0 /\ m[Len(<<>>)] = 0
    BY MarksEmpty
  <2>2. RunsFrom(adding, QueueEnd)
    BY <1>2, <1>3 DEF RunsFrom
  <2> QED BY <2>1, <2>2, <1>3, <1>5 DEF QueueInv
<1> QED BY <1>1, <1>4, <1>6, <1>7 DEF IInv

\* The port hears nothing but frames, one at a time: what it does to the
\* detector is a step of the detector (onFrameReceived).
LEMMA DetectorStep ==
  ASSUME [Next]_vars
  PROVE  [\E v \in BOOLEAN : processFrame(v)]_vadVars
<1>1. ASSUME FrameReceived
      PROVE  \E v \in BOOLEAN : processFrame(v)
  BY <1>1 DEF FrameReceived, processFrame
<1>2. ASSUME ~FrameReceived
      PROVE  UNCHANGED vadVars
  BY <1>2 DEF Next, BeginAdd, EndAdd, RequestFrame, TakeChunk, CopySamples, DeliverFrame,
              Race, Halted, vars, vadVars
<1> QED BY <1>1, <1>2

\* The client's thread puts a chunk in the queue (addToQueue).
LEMMA AddStep ==
  ASSUME IInv, VadInv', BeginAdd \/ EndAdd
  PROVE  IInv'
<1>1. /\ TypeOK /\ FrameInv /\ QueueInv /\ VadTypeOK'
      /\ pcmBuffer' = pcmBuffer /\ pcmBufferIndex' = pcmBufferIndex
      /\ idle' = idle /\ temp' = temp /\ frame' = frame
      /\ played' = played /\ silenced' = silenced /\ corrupt' = corrupt
  BY DEF IInv, VadInv, BeginAdd, EndAdd
<1>2. FrameInv' /\ Start' = Start /\ ChunkEnd' = ChunkEnd
  BY <1>1 DEF FrameInv, RunsFrom, Start, ChunkEnd
<1>3. PICK m : /\ Marks(m, audioQueue)
               /\ m[0] = ChunkEnd /\ m[Len(audioQueue)] = QueueEnd
  BY <1>1 DEF QueueInv
<1>4. QueueEnd \in Nat
  BY Ends
<1>5. ASSUME NEW c \in Seq(Samples), audioQueue' = Append(audioQueue, c),
             RunsFrom(c, QueueEnd), QueueEnd' = QueueEnd + Len(c), adding' = <<>>
      PROVE  QueueInv' /\ audioQueue' \in Seq(Seq(Samples)) /\ adding' \in Seq(Samples)
  <2>1. audioQueue \in Seq(Seq(Samples)) /\ Len(c) \in Nat
    BY <1>1, Numbers, LenProperties
  <2>2. \E p : /\ Marks(p, Append(audioQueue, c))
              /\ p[0] = m[0]
              /\ p[Len(Append(audioQueue, c))] = m[Len(audioQueue)] + Len(c)
    BY <2>1, <1>3, <1>5, MarksAppend
  <2>3. \E p : /\ Marks(p, audioQueue') /\ p[0] = ChunkEnd'
              /\ p[Len(audioQueue')] = QueueEnd'
    BY <2>2, <1>2, <1>3, <1>5
  <2>4. RunsFrom(adding', QueueEnd') /\ QueueEnd' >= 0
    BY <2>1, <1>4, <1>5, EmptySeq DEF RunsFrom
  <2>5. audioQueue' \in Seq(Seq(Samples)) /\ adding' \in Seq(Samples)
    BY <2>1, <1>5, AppendProperties, EmptySeq
  <2> QED BY <2>3, <2>4, <2>5 DEF QueueInv, RunsFrom
<1>6. ASSUME BeginAdd
      PROVE  /\ QueueInv' /\ audioQueue' \in Seq(Seq(Samples)) /\ adding' \in Seq(Samples)
             /\ queued <= queued' /\ queued' \in 0..MaxSamples
  <2>1. PICK n \in Chunks :
          /\ queued + n <= MaxSamples
          /\ queued' = queued + n
          /\ IF n = 0
               THEN audioQueue' = Append(audioQueue, <<>>) /\ UNCHANGED adding
               ELSE adding' = Run(queued, queued + n) /\ UNCHANGED audioQueue
    BY <1>6 DEF BeginAdd
  <2>2. n \in Nat /\ MaxSamples \in Nat /\ queued \in Nat
    BY <1>1, Numbers, PortAssumption
  <2>3. adding = <<>> /\ QueueEnd = queued
    <3>1. adding = <<>> /\ Len(adding) = 0
      BY <1>6, EmptySeq DEF BeginAdd
    <3> QED BY <3>1, <2>2 DEF QueueEnd
  <2>4. queued <= queued' /\ queued' \in 0..MaxSamples
    BY <2>1, <2>2
  <2>5. CASE n = 0
    <3>1. adding' = <<>> /\ audioQueue' = Append(audioQueue, <<>>) /\ queued' = queued
      BY <2>1, <2>2, <2>3, <2>5
    <3>2. Len(<<>>) = 0 /\ <<>> \in Seq(Samples)
      BY EmptySeq
    <3>3. RunsFrom(<<>>, QueueEnd) /\ QueueEnd' = QueueEnd + Len(<<>>)
      BY <3>1, <3>2, <2>2, <2>3 DEF QueueEnd, RunsFrom
    <3> QED BY <3>1, <3>2, <3>3, <2>4, <1>5
  <2>6. CASE n # 0
    <3> DEFINE c == Run(queued, queued + n)
               b == queued + n
    <3>1. adding' = Run(queued, b) /\ audioQueue' = audioQueue /\ queued' = b
      BY <2>1, <2>6
    <3>2. b \in Nat /\ queued <= b /\ queued + 1..b \subseteq Samples
      BY <2>1, <2>2 DEF Samples
    <3>3. b - queued = n
      BY <2>2
    <3> HIDE DEF b
    <3>4. /\ Run(queued, b) \in Seq(Samples) /\ Len(Run(queued, b)) = b - queued
          /\ RunsFrom(Run(queued, b), queued)
      BY <3>2, <2>2, RunProperties
    <3>5. QueueEnd' = QueueEnd
      BY <3>1, <3>2, <3>4, <2>2, <2>3 DEF QueueEnd
    <3>6. RunsFrom(adding', QueueEnd')
      BY <3>1, <3>4, <3>5, <2>3
    <3>7. QueueInv'
      BY <3>1, <3>5, <3>6, <1>2, <1>3, <1>4 DEF QueueInv
    <3> QED BY <3>1, <3>4, <3>7, <2>4, <1>1, Numbers
  <2> QED BY <2>5, <2>6
<1>7. ASSUME EndAdd
      PROVE  /\ QueueInv' /\ audioQueue' \in Seq(Seq(Samples)) /\ adding' \in Seq(Samples)
             /\ queued <= queued' /\ queued' \in 0..MaxSamples
  <2>1. audioQueue' = Append(audioQueue, adding) /\ adding' = <<>> /\ queued' = queued
    BY <1>7 DEF EndAdd
  <2>2. adding \in Seq(Samples) /\ Len(adding) \in Nat /\ queued \in Nat
    BY <1>1, Numbers
  <2>3. RunsFrom(adding, QueueEnd)
    BY <1>1 DEF QueueInv
  <2>4. QueueEnd' = QueueEnd + Len(adding)
    <3>1. Len(adding') = 0
      BY <2>1, EmptySeq
    <3> QED BY <3>1, <2>1, <2>2 DEF QueueEnd
  <2> QED BY <2>1, <2>2, <2>3, <2>4, <1>1, <1>5 DEF TypeOK
<1>8. /\ QueueInv' /\ audioQueue' \in Seq(Seq(Samples)) /\ adding' \in Seq(Samples)
      /\ queued <= queued' /\ queued' \in 0..MaxSamples
  BY <1>6, <1>7
<1>9. played' \in 0..queued' /\ silenced' \in 0..queued'
  BY <1>1, <1>8, Numbers
<1>10. TypeOK'
  BY <1>1, <1>8, <1>9 DEF TypeOK
<1> QED BY <1>2, <1>8, <1>10 DEF IInv

\* A frame is asked for (onFrameRequested, its first lines).
LEMMA RequestStep ==
  ASSUME IInv, VadInv', RequestFrame
  PROVE  IInv'
<1>1. /\ TypeOK /\ FrameInv /\ QueueInv /\ VadTypeOK'
      /\ idle /\ idle' = FALSE /\ temp = <<>> /\ temp' = temp
      /\ UNCHANGED <<audioQueue, pcmBuffer, pcmBufferIndex, adding, frame, played,
                     queued, silenced, corrupt>>
  BY DEF IInv, VadInv, FrameInv, RequestFrame
<1>2. TypeOK'
  BY <1>1 DEF TypeOK
<1>3. Start' = Start /\ ChunkEnd' = ChunkEnd /\ QueueEnd' = QueueEnd
  BY <1>1 DEF Start, ChunkEnd, QueueEnd
<1>4. FrameInv'
  BY <1>1, <1>3 DEF FrameInv, RunsFrom
<1>5. QueueInv'
  BY <1>1, <1>3 DEF QueueInv, RunsFrom
<1> QED BY <1>2, <1>4, <1>5 DEF IInv

\* The next chunk is taken from the queue (onFrameRequested).
LEMMA TakeStep ==
  ASSUME IInv, VadInv', TakeChunk
  PROVE  IInv'
<1>1. /\ TypeOK /\ FrameInv /\ QueueInv /\ VadTypeOK'
      /\ pcmBufferIndex >= Len(pcmBuffer) /\ audioQueue # <<>>
      /\ pcmBuffer' = Head(audioQueue) /\ audioQueue' = Tail(audioQueue)
      /\ pcmBufferIndex' = 0
      /\ UNCHANGED <<adding, idle, temp, frame, played, queued, silenced, corrupt>>
  BY DEF IInv, VadInv, TakeChunk, BufferUsed
<1>2. PICK m : /\ Marks(m, audioQueue)
               /\ m[0] = ChunkEnd /\ m[Len(audioQueue)] = QueueEnd
  BY <1>1 DEF QueueInv
<1>3. /\ audioQueue \in Seq(Seq(Samples)) /\ Len(temp) \in Nat /\ Start \in Nat
      /\ pcmBufferIndex = Len(pcmBuffer) /\ pcmBufferIndex \in Nat
  BY <1>1, Numbers
<1>4. /\ Head(audioQueue) \in Seq(Samples) /\ Tail(audioQueue) \in Seq(Seq(Samples))
      /\ Len(Head(audioQueue)) \in Nat
  BY <1>1, <1>3, HeadTailProperties, LenProperties
<1>5. /\ RunsFrom(Head(audioQueue), m[0])
      /\ \E p : /\ Marks(p, Tail(audioQueue))
               /\ p[0] = m[0] + Len(Head(audioQueue))
               /\ p[Len(Tail(audioQueue))] = m[Len(audioQueue)]
  BY <1>1, <1>2, <1>3, MarksTail
<1>6. ChunkEnd = Start + Len(temp) /\ Start' = Start /\ QueueEnd' = QueueEnd
  BY <1>1, <1>3 DEF ChunkEnd, QueueEnd, Start
<1>7. ChunkEnd' = ChunkEnd + Len(Head(audioQueue))
  BY <1>1, <1>3, <1>4, <1>6 DEF ChunkEnd
<1>8. TypeOK'
  <2>1. pcmBufferIndex' \in 0..Len(pcmBuffer')
    BY <1>1, <1>4
  <2> QED BY <2>1, <1>1, <1>4 DEF TypeOK
<1>9. FrameInv'
  <2>1. \A i \in pcmBufferIndex' + 1..Len(pcmBuffer') :
          pcmBuffer'[i] = Start' + Len(temp') + (i - pcmBufferIndex')
    <3>1. ASSUME NEW i \in 1..Len(Head(audioQueue))
          PROVE  Head(audioQueue)[i] = Start + Len(temp) + (i - 0)
      <4>1. Head(audioQueue)[i] = ChunkEnd + i
        BY <1>2, <1>5 DEF RunsFrom
      <4> QED BY <4>1, <1>3, <1>4, <1>6
    <3> QED BY <3>1, <1>1, <1>6
  <2>2. (idle' => temp' = <<>>) /\ RunsFrom(temp, Start)'
    BY <1>1, <1>6 DEF FrameInv, RunsFrom
  <2> QED BY <2>1, <2>2 DEF FrameInv
<1>10. QueueInv'
  <2>1. RunsFrom(adding, QueueEnd)' /\ QueueEnd' >= 0
    BY <1>1, <1>6 DEF QueueInv, RunsFrom
  <2>2. \E p : /\ Marks(p, audioQueue') /\ p[0] = ChunkEnd'
              /\ p[Len(audioQueue')] = QueueEnd'
    BY <1>1, <1>2, <1>5, <1>6, <1>7
  <2> QED BY <2>1, <2>2 DEF QueueInv
<1> QED BY <1>8, <1>9, <1>10 DEF IInv

\* Samples are copied into the frame, up to its end or that of the chunk
\* (onFrameRequested).
LEMMA CopyStep ==
  ASSUME IInv, VadInv', CopySamples
  PROVE  IInv'
<1> DEFINE missing == FrameSamples - Len(temp)
           left == Len(pcmBuffer) - pcmBufferIndex
           n == IF missing < left THEN missing ELSE left
           part == SubSeq(pcmBuffer, pcmBufferIndex + 1, pcmBufferIndex + n)
<1>1. /\ TypeOK /\ FrameInv /\ QueueInv /\ VadTypeOK'
      /\ Len(temp) < FrameSamples /\ ~(pcmBufferIndex >= Len(pcmBuffer)) /\ ~idle
      /\ temp' = temp \o part /\ pcmBufferIndex' = pcmBufferIndex + n
      /\ UNCHANGED <<audioQueue, pcmBuffer, adding, idle, frame, played, queued, silenced,
                     corrupt>>
  BY DEF IInv, VadInv, CopySamples, Filling, BufferUsed
<1>2. /\ FrameSamples \in Nat /\ Samples \subseteq Nat /\ Start \in Nat
      /\ pcmBuffer \in Seq(Samples) /\ Len(pcmBuffer) \in Nat
      /\ pcmBufferIndex \in Nat /\ temp \in Seq(Samples) /\ Len(temp) \in Nat
  BY <1>1, Numbers
<1>3. /\ n \in Nat /\ Len(temp) + n <= FrameSamples
      /\ pcmBufferIndex + n <= Len(pcmBuffer)
  BY <1>1, <1>2
<1> HIDE DEF n
<1>4. /\ part \in Seq(Samples) /\ Len(part) = n
      /\ \A i \in 1..n : part[i] = pcmBuffer[pcmBufferIndex + i]
  <2> DEFINE first == pcmBufferIndex + 1
             last == pcmBufferIndex + n
  <2>1. first \in Int /\ last \in Int /\ last - first + 1 = n
    BY <1>2, <1>3
  <2>2. \A i \in first..last : pcmBuffer[i] \in Samples
    BY <1>2, <1>3, ElementOfSeq
  <2>3. \A i \in Int : first + i - 1 = pcmBufferIndex + i
    BY <1>2
  <2> HIDE DEF first, last
  <2>4. /\ SubSeq(pcmBuffer, first, last) \in Seq(Samples)
        /\ Len(SubSeq(pcmBuffer, first, last)) = IF first <= last THEN last - first + 1 ELSE 0
        /\ \A i \in 1..last - first + 1 :
             SubSeq(pcmBuffer, first, last)[i] = pcmBuffer[first + i - 1]
    BY <2>1, <2>2, SubSeqProperties
  <2>5. part = SubSeq(pcmBuffer, first, last)
    BY DEF part, first, last
  <2> HIDE DEF part
  <2>6. Len(part) = n
    BY <2>1, <2>4, <2>5, <1>3
  <2>7. ASSUME NEW i \in 1..n
        PROVE  part[i] = pcmBuffer[pcmBufferIndex + i]
    <3>1. i \in 1..last - first + 1
      BY <2>1
    <3>2. part[i] = pcmBuffer[first + i - 1]
      BY <3>1, <2>4, <2>5
    <3>3. first + i - 1 = pcmBufferIndex + i
      BY <2>3
    <3> QED BY <3>2, <3>3
  <2> QED BY <2>4, <2>5, <2>6, <2>7
<1> HIDE DEF part
<1>5. temp \in Seq(Nat) /\ part \in Seq(Nat)
  BY <1>2, <1>4, SeqMonotonic
<1>6. RunsFrom(temp, Start) /\ RunsFrom(part, Start + Len(temp))
  <2>1. ASSUME NEW i \in 1..n
        PROVE  part[i] = Start + Len(temp) + i
    <3> DEFINE k == pcmBufferIndex + i
    <3>1. k \in pcmBufferIndex + 1..Len(pcmBuffer) /\ k - pcmBufferIndex = i
      BY <1>2, <1>3
    <3>2. part[i] = pcmBuffer[k]
      BY <1>4
    <3> HIDE DEF k
    <3>3. pcmBuffer[k] = Start + Len(temp) + (k - pcmBufferIndex)
      BY <3>1, <1>1 DEF FrameInv
    <3> QED BY <3>1, <3>2, <3>3
  <2> QED BY <2>1, <1>1, <1>4 DEF FrameInv, RunsFrom
<1>7. /\ temp' \in Seq(Nat) /\ Len(temp') = Len(temp) + n
      /\ RunsFrom(temp', Start)
  BY <1>1, <1>2, <1>4, <1>5, <1>6, RunsConcat
<1>8. temp' \in Seq(Samples)
  BY <1>1, <1>2, <1>4, ConcatProperties
<1>9. Start' = Start /\ ChunkEnd' = ChunkEnd /\ QueueEnd' = QueueEnd
  <2>1. ChunkEnd' = Start + (Len(temp) + n) + Len(pcmBuffer) - (pcmBufferIndex + n)
    BY <1>1, <1>7 DEF ChunkEnd, Start
  <2>2. Start + (Len(temp) + n) + Len(pcmBuffer) - (pcmBufferIndex + n)
          = Start + Len(temp) + Len(pcmBuffer) - pcmBufferIndex
    BY <1>2, <1>3
  <2> QED BY <2>1, <2>2, <1>1 DEF ChunkEnd, QueueEnd, Start
<1>10. TypeOK'
  <2>1. pcmBufferIndex' \in 0..Len(pcmBuffer') /\ Len(temp') <= FrameSamples
    BY <1>1, <1>2, <1>3, <1>7
  <2> QED BY <2>1, <1>1, <1>8 DEF TypeOK
<1>11. FrameInv'
  <2>1. ASSUME NEW i \in pcmBufferIndex + n + 1..Len(pcmBuffer)
        PROVE  pcmBuffer[i] = Start + (Len(temp) + n) + (i - (pcmBufferIndex + n))
    <3>1. i \in pcmBufferIndex + 1..Len(pcmBuffer)
      BY <1>2, <1>3
    <3>2. pcmBuffer[i] = Start + Len(temp) + (i - pcmBufferIndex)
      BY <3>1, <1>1 DEF FrameInv
    <3> QED BY <3>1, <3>2, <1>2, <1>3
  <2> QED BY <2>1, <1>1, <1>7, <1>9 DEF FrameInv, RunsFrom
<1>12. QueueInv'
  BY <1>1, <1>9 DEF QueueInv, RunsFrom
<1> QED BY <1>10, <1>11, <1>12 DEF IInv

\* The frame goes to PJSIP, filled up with silence (onFrameRequested).
LEMMA DeliverStep ==
  ASSUME IInv, VadInv', DeliverFrame
  PROVE  IInv'
<1>1. /\ TypeOK /\ FrameInv /\ QueueInv /\ VadTypeOK'
      /\ frame' = temp \o [i \in 1..(FrameSamples - Len(temp)) |-> 0]
      /\ played' = IF temp = <<>> THEN played ELSE Last(temp)
      /\ idle' = TRUE /\ temp' = <<>>
      /\ UNCHANGED <<audioQueue, pcmBuffer, pcmBufferIndex, adding, queued, silenced,
                     corrupt>>
  BY DEF IInv, VadInv, DeliverFrame
<1>2. /\ FrameSamples \in Nat /\ Samples \subseteq Nat /\ Start \in Nat
      /\ pcmBuffer \in Seq(Samples) /\ Len(pcmBuffer) \in Nat /\ pcmBufferIndex \in Nat
      /\ temp \in Seq(Samples) /\ Len(temp) \in Nat /\ Len(temp) <= FrameSamples
      /\ played \in Nat /\ silenced \in Nat /\ silenced <= Start /\ queued \in Nat
  BY <1>1, Numbers
<1>3. Len(temp') = 0 /\ temp' \in Seq(Samples)
  BY <1>1, EmptySeq
<1>4. Start' = Start + Len(temp) /\ played' \in Nat /\ played' <= Start'
  <2>1. CASE temp = <<>>
    <3>1. Len(temp) = 0 /\ played' = played /\ silenced' = silenced
      BY <2>1, <1>1, EmptySeq
    <3>2. Start' = Start
      BY <3>1 DEF Start
    <3> QED BY <3>1, <3>2, <1>1, <1>2, Numbers
  <2>2. CASE temp # <<>>
    <3>1. Len(temp) \in 1..Len(temp)
      BY <2>2, <1>2, EmptySeq
    <3>2. temp[Len(temp)] = Start + Len(temp)
      BY <3>1, <1>1 DEF FrameInv, RunsFrom
    <3>3. played' = Start + Len(temp) /\ silenced' = silenced
      BY <3>2, <2>2, <1>1 DEF Last
    <3>4. played' > silenced'
      BY <3>1, <3>3, <1>2
    <3>5. Start' = played'
      BY <3>4 DEF Start
    <3> QED BY <3>3, <3>5, <1>2
  <2> QED BY <2>1, <2>2
<1>5. ChunkEnd' = ChunkEnd /\ QueueEnd' = QueueEnd
  <2>1. ChunkEnd' = Start + Len(temp) + 0 + Len(pcmBuffer) - pcmBufferIndex
    BY <1>1, <1>3, <1>4 DEF ChunkEnd
  <2> QED BY <2>1, <1>1, <1>2 DEF ChunkEnd, QueueEnd
<1>6. frame' \in Seq(Samples \cup {0}) /\ Len(frame') = FrameSamples
  <2> DEFINE silence == [i \in 1..(FrameSamples - Len(temp)) |-> 0]
  <2>1. FrameSamples - Len(temp) \in Nat
    BY <1>2
  <2>2. silence \in Seq(Samples \cup {0}) /\ Len(silence) = FrameSamples - Len(temp)
    BY <2>1
  <2> HIDE DEF silence
  <2>3. temp \in Seq(Samples \cup {0})
    BY <1>2, SeqMonotonic
  <2>4. /\ temp \o silence \in Seq(Samples \cup {0})
        /\ Len(temp \o silence) = Len(temp) + Len(silence)
    BY <2>2, <2>3, ConcatProperties
  <2>5. Len(temp) + (FrameSamples - Len(temp)) = FrameSamples
    BY <1>2
  <2> QED BY <2>2, <2>4, <2>5, <1>1 DEF silence
<1>7. TypeOK'
  <2>1. Start + Len(temp) <= queued
    BY Ends, <1>2
  <2>2. played' \in 0..queued'
    BY <2>1, <1>1, <1>2, <1>4
  <2> QED BY <2>2, <1>1, <1>2, <1>3, <1>6 DEF TypeOK
<1>8. FrameInv'
  <2>1. ASSUME NEW i \in pcmBufferIndex + 1..Len(pcmBuffer)
        PROVE  pcmBuffer[i] = Start + Len(temp) + 0 + (i - pcmBufferIndex)
    <3>1. pcmBuffer[i] = Start + Len(temp) + (i - pcmBufferIndex)
      BY <1>1 DEF FrameInv
    <3> QED BY <3>1, <1>2
  <2>2. RunsFrom(temp', Start')
    BY <1>2, <1>3 DEF RunsFrom
  <2> QED BY <2>1, <2>2, <1>1, <1>3, <1>4 DEF FrameInv, RunsFrom
<1>9. QueueInv'
  BY <1>1, <1>5 DEF QueueInv, RunsFrom
<1> QED BY <1>7, <1>8, <1>9 DEF IInv

\* A frame is heard; if speech starts with it, all that waits is thrown away
\* (onFrameReceived, clearQueue).
LEMMA HearStep ==
  ASSUME IInv, VadInv', FrameReceived
  PROVE  IInv'
<1>1. /\ TypeOK /\ FrameInv /\ QueueInv /\ VadTypeOK'
      /\ idle /\ temp = <<>>
      /\ UNCHANGED <<adding, idle, temp, frame, played, queued, corrupt>>
  BY DEF IInv, VadInv, FrameInv, FrameReceived
<1>2. CASE UNCHANGED <<audioQueue, pcmBuffer, pcmBufferIndex, silenced>>
  <2>1. Start' = Start /\ ChunkEnd' = ChunkEnd /\ QueueEnd' = QueueEnd
    BY <1>1, <1>2 DEF Start, ChunkEnd, QueueEnd
  <2>2. TypeOK'
    BY <1>1, <1>2 DEF TypeOK
  <2>3. FrameInv' /\ QueueInv'
    BY <2>1, <1>1, <1>2 DEF FrameInv, QueueInv, RunsFrom
  <2> QED BY <2>2, <2>3 DEF IInv
<1>3. CASE ClearQueue
  <2>1. audioQueue' = <<>> /\ pcmBuffer' = <<>> /\ pcmBufferIndex' = 0 /\ silenced' = QueueEnd
    BY <1>3 DEF ClearQueue, QueueEnd
  <2>2. /\ played \in Nat /\ played <= Start /\ Start \in Nat /\ queued \in Nat
        /\ Len(temp) = 0
    BY <1>1, Numbers, EmptySeq
  <2>3. QueueEnd \in Nat /\ QueueEnd <= queued /\ Start <= QueueEnd
    <3>1. Start + Len(temp) <= ChunkEnd /\ ChunkEnd <= QueueEnd /\ QueueEnd <= queued
          /\ ChunkEnd \in Nat /\ QueueEnd \in Nat
      BY Ends
    <3> QED BY <3>1, <2>2
  <2>4. Start' = QueueEnd
    BY <2>1, <2>2, <2>3, <1>1 DEF Start
  <2>5. Len(<<>>) = 0 /\ \A S : <<>> \in Seq(S)
    BY EmptySeq
  <2>6. ChunkEnd' = QueueEnd /\ QueueEnd' = QueueEnd
    <3>1. Len(pcmBuffer') = 0 /\ Len(temp') = 0
      BY <2>1, <2>5, <2>2, <1>1
    <3>2. ChunkEnd' = QueueEnd + 0 + 0 - 0
      BY <3>1, <2>1, <2>4 DEF ChunkEnd
    <3> QED BY <3>2, <2>3, <1>1 DEF QueueEnd
  <2>7. TypeOK'
    <3>1. audioQueue' \in Seq(Seq(Samples))
      BY <2>1, <2>5
    <3>2. pcmBuffer' \in Seq(Samples)
      BY <2>1, <2>5
    <3>3. pcmBufferIndex' \in 0..Len(pcmBuffer')
      BY <2>1, <2>5
    <3>4. silenced' \in 0..queued'
      BY <2>1, <2>2, <2>3, <1>1
    <3> QED BY <3>1, <3>2, <3>3, <3>4, <1>1 DEF TypeOK
  <2>8. FrameInv'
    <3>1. \A i \in pcmBufferIndex' + 1..Len(pcmBuffer') : FALSE
      BY <2>1, <2>5
    <3>2. RunsFrom(temp', Start')
      BY <2>2, <1>1 DEF RunsFrom
    <3> QED BY <3>1, <3>2, <1>1 DEF FrameInv, RunsFrom
  <2>9. QueueInv'
    <3>1. \E m : Marks(m, <<>>) /\ m[0] = QueueEnd /\ m[Len(<<>>)] = QueueEnd
      BY <2>3, MarksEmpty
    <3>2. RunsFrom(adding', QueueEnd')
      BY <2>6, <1>1 DEF QueueInv
    <3> QED BY <3>1, <3>2, <2>1, <2>3, <2>6 DEF QueueInv, RunsFrom
  <2> QED BY <2>7, <2>8, <2>9 DEF IInv
<1> QED BY <1>2, <1>3 DEF FrameReceived

\* Every step keeps the invariant; a race only says that it has happened.
LEMMA NextStep ==
  ASSUME IInv, [Next]_vars
  PROVE  IInv'
<1>1. VadInv'
  BY DetectorStep, VadStep DEF IInv
<1>2. ASSUME UNCHANGED <<audioQueue, pcmBuffer, pcmBufferIndex, adding, idle, temp, frame,
                         played, queued, silenced>>, corrupt' \in BOOLEAN
      PROVE  IInv'
  <2>1. TypeOK /\ FrameInv /\ QueueInv /\ VadTypeOK'
    BY <1>1 DEF IInv, VadInv
  <2>2. Start' = Start /\ ChunkEnd' = ChunkEnd /\ QueueEnd' = QueueEnd
    BY <1>2 DEF Start, ChunkEnd, QueueEnd
  <2>3. TypeOK'
    BY <2>1, <1>2 DEF TypeOK
  <2>4. FrameInv' /\ QueueInv'
    BY <2>1, <2>2, <1>2 DEF FrameInv, QueueInv, RunsFrom
  <2> QED BY <2>3, <2>4, <1>1 DEF IInv
<1>3. CASE Race
  BY <1>2, <1>3 DEF Race
<1>4. CASE Halted \/ UNCHANGED vars
  <2>1. corrupt \in BOOLEAN
    BY DEF IInv, TypeOK
  <2> QED BY <2>1, <1>2, <1>4 DEF Halted, vars, playVars
<1> QED BY <1>1, <1>3, <1>4, AddStep, RequestStep, TakeStep, CopyStep, DeliverStep, HearStep
        DEF Next

\* Every sample stands where its number says (addToQueue, onFrameRequested,
\* onFrameReceived, clearQueue).
THEOREM InductiveInvariant == Spec => []IInv
BY InitIInv, NextStep, PTL DEF Spec

-----------------------------------------------------------------------------
(* The properties.                                                         *)

\* The queue, the buffers and the counters keep their types and their sizes.
THEOREM TypeCorrect == Spec => []TypeOK
<1>1. IInv => TypeOK
  BY DEF IInv
<1> QED BY <1>1, InductiveInvariant, PTL

\* No sample that was queued is lost, doubled or reordered between the chunks
\* and the frames (addToQueue, onFrameRequested, clearQueue).
THEOREM NothingIsLost == Spec => []NothingLost
<1>1. ASSUME IInv
      PROVE  NothingLost
  <2> DEFINE rest == SubSeq(pcmBuffer, pcmBufferIndex + 1, Len(pcmBuffer))
             flat == FlattenSeq(audioQueue)
  <2>1. TypeOK /\ FrameInv /\ QueueInv
    BY <1>1 DEF IInv
  <2>2. /\ Samples \subseteq Nat /\ Start \in Nat
        /\ audioQueue \in Seq(Seq(Samples)) /\ Len(audioQueue) \in Nat
        /\ pcmBuffer \in Seq(Samples) /\ Len(pcmBuffer) \in Nat
        /\ pcmBufferIndex \in Nat /\ pcmBufferIndex <= Len(pcmBuffer)
        /\ adding \in Seq(Samples) /\ Len(adding) \in Nat
        /\ temp \in Seq(Samples) /\ Len(temp) \in Nat /\ queued \in Nat
    BY <2>1, Numbers
  <2>3. /\ ChunkEnd \in Nat /\ QueueEnd \in Nat
        /\ Start + Len(temp) <= ChunkEnd /\ ChunkEnd <= QueueEnd /\ QueueEnd <= queued
    BY <1>1, Ends
  <2>4. temp \in Seq(Nat) /\ adding \in Seq(Nat) /\ audioQueue \in Seq(Seq(Nat))
    BY <2>2, SeqMonotonic
  <2>5. rest \in Seq(Nat) /\ Start + Len(temp) + Len(rest) = ChunkEnd
        /\ RunsFrom(rest, Start + Len(temp))
    <3> DEFINE first == pcmBufferIndex + 1
               last == Len(pcmBuffer)
    <3>1. first \in Int /\ last \in Int /\ first = pcmBufferIndex + 1 /\ last = Len(pcmBuffer)
      BY <2>2
    <3>2. \A i \in first..last : pcmBuffer[i] \in Nat
      <4>1. pcmBuffer \in Seq(Nat)
        BY <2>2, SeqMonotonic
      <4>2. \A i \in first..last : i \in 1..Len(pcmBuffer)
        BY <2>2
      <4> HIDE DEF first, last
      <4> QED BY <4>1, <4>2, ElementOfSeq
    <3> HIDE DEF first, last
    <3>3. /\ SubSeq(pcmBuffer, first, last) \in Seq(Nat)
          /\ Len(SubSeq(pcmBuffer, first, last)) = IF first <= last THEN last - first + 1 ELSE 0
          /\ \A i \in 1..last - first + 1 :
               SubSeq(pcmBuffer, first, last)[i] = pcmBuffer[first + i - 1]
      BY <3>1, <3>2, SubSeqProperties
    <3>4. rest = SubSeq(pcmBuffer, first, last)
      BY DEF first, last
    <3> HIDE DEF rest
    <3>5. Len(rest) = Len(pcmBuffer) - pcmBufferIndex
      BY <3>1, <3>3, <3>4, <2>2
    <3>6. ASSUME NEW i \in 1..Len(rest)
          PROVE  rest[i] = Start + Len(temp) + i
      <4> DEFINE k == pcmBufferIndex + i
      <4>1. /\ k \in pcmBufferIndex + 1..Len(pcmBuffer) /\ k - pcmBufferIndex = i
            /\ first + i - 1 = k /\ i \in 1..last - first + 1
        BY <3>1, <3>5, <2>2
      <4>2. rest[i] = pcmBuffer[k]
        BY <4>1, <3>3, <3>4
      <4> HIDE DEF k
      <4>3. pcmBuffer[k] = Start + Len(temp) + (k - pcmBufferIndex)
        BY <4>1, <2>1 DEF FrameInv
      <4> QED BY <4>1, <4>2, <4>3
    <3>7. Start + Len(temp) + Len(rest) = ChunkEnd
      BY <3>5, <2>2 DEF ChunkEnd
    <3> QED BY <3>3, <3>4, <3>6, <3>7 DEF RunsFrom
  <2>6. flat = Run(ChunkEnd, QueueEnd)
    <3>1. PICK m : /\ Marks(m, audioQueue)
                   /\ m[0] = ChunkEnd /\ m[Len(audioQueue)] = QueueEnd
      BY <2>1 DEF QueueInv
    <3> QED BY <3>1, <2>4, FlattenMarked
  <2> HIDE DEF rest, flat
  <2>7. flat \in Seq(Nat) /\ ChunkEnd + Len(flat) = QueueEnd /\ RunsFrom(flat, ChunkEnd)
    <3>1. /\ flat \in Seq(Nat) /\ Len(flat) = QueueEnd - ChunkEnd
          /\ RunsFrom(flat, ChunkEnd)
      BY <2>3, <2>6, RunProperties
    <3> QED BY <3>1, <2>3
  <2>8. RunsFrom(adding, QueueEnd) /\ QueueEnd + Len(adding) = queued
    BY <2>1, <2>2 DEF QueueInv, QueueEnd
  \* The three pieces that wait, and the frame before them.
  <2>9. /\ rest \o flat \in Seq(Nat) /\ RunsFrom(rest \o flat, Start + Len(temp))
        /\ Start + Len(temp) + Len(rest \o flat) = QueueEnd
    <3>1. Start + Len(temp) \in Nat /\ Len(rest) \in Nat /\ Len(flat) \in Nat
      BY <2>2, <2>5, <2>7, LenProperties
    <3>2. /\ rest \o flat \in Seq(Nat) /\ Len(rest \o flat) = Len(rest) + Len(flat)
          /\ RunsFrom(rest \o flat, Start + Len(temp))
      BY <3>1, <2>5, <2>7, RunsConcat
    <3> QED BY <3>1, <3>2, <2>2, <2>5, <2>7
  <2>10. /\ Pending \in Seq(Nat) /\ RunsFrom(Pending, Start + Len(temp))
         /\ Start + Len(temp) + Len(Pending) = queued
    <3> DEFINE left == rest \o flat
    <3>1. Pending = left \o adding
      <4>1. Pending = rest \o flat \o adding
        BY DEF Pending, rest, flat
      <4> QED BY <4>1
    <3>2. left \in Seq(Nat) /\ RunsFrom(left, Start + Len(temp))
          /\ Start + Len(temp) + Len(left) = QueueEnd
      BY <2>9
    <3> HIDE DEF left
    <3>3. Start + Len(temp) \in Nat /\ Len(left) \in Nat
      BY <3>2, <2>2, LenProperties
    <3>4. /\ left \o adding \in Seq(Nat) /\ Len(left \o adding) = Len(left) + Len(adding)
          /\ RunsFrom(left \o adding, Start + Len(temp))
      BY <3>2, <3>3, <2>4, <2>8, RunsConcat
    <3>5. Start + Len(temp) + Len(left \o adding) = queued
      BY <3>2, <3>3, <3>4, <2>2, <2>8
    <3> QED BY <3>1, <3>4, <3>5
  <2>11. /\ temp \o Pending \in Seq(Nat) /\ RunsFrom(temp \o Pending, Start)
         /\ Start + Len(temp \o Pending) = queued
    <3>1. Len(Pending) \in Nat
      BY <2>10, LenProperties
    <3>2. /\ temp \o Pending \in Seq(Nat)
          /\ Len(temp \o Pending) = Len(temp) + Len(Pending)
          /\ RunsFrom(temp \o Pending, Start)
      BY <2>1, <2>2, <2>4, <2>10, RunsConcat DEF FrameInv
    <3> QED BY <3>1, <3>2, <2>2, <2>10
  <2>12. temp \o Pending = Run(Start, queued)
    <3>1. temp \o Pending = Run(Start, Start + Len(temp \o Pending))
      BY <2>2, <2>11, RunIs
    <3> QED BY <3>1, <2>11
  <2> QED BY <2>12 DEF NothingLost, Start
<1> QED BY <1>1, InductiveInvariant, PTL

\* Silence is put in a frame only when nothing is left to play
\* (onFrameRequested).
THEOREM NoGapsEver == Spec => NoGaps
<1> DEFINE Step == ~idle /\ idle' /\ frame'[FrameSamples] = 0 =>
                     audioQueue = <<>> /\ pcmBufferIndex = Len(pcmBuffer)
<1>1. ASSUME IInv, Next
      PROVE  Step
  <2> SUFFICES ASSUME ~idle, idle', frame'[FrameSamples] = 0
               PROVE  audioQueue = <<>> /\ pcmBufferIndex = Len(pcmBuffer)
    BY DEF Step
  <2>1. DeliverFrame
    BY <1>1 DEF Next, BeginAdd, EndAdd, RequestFrame, TakeChunk, CopySamples, Race,
                FrameReceived, Halted, vars, playVars
  <2>2. TypeOK /\ FrameInv
    BY <1>1 DEF IInv
  <2>3. Len(temp) # FrameSamples
    <3> SUFFICES ASSUME Len(temp) = FrameSamples PROVE FALSE
      OBVIOUS
    <3>1. /\ FrameSamples \in 1..Len(temp) /\ Start \in Nat /\ temp \in Seq(Samples)
          /\ FrameSamples \in Nat \ {0} /\ Samples \subseteq Nat
      BY <2>2, Numbers
    <3>2. temp[FrameSamples] = Start + FrameSamples
      BY <3>1, <2>2 DEF FrameInv, RunsFrom
    <3>3. [i \in 1..(FrameSamples - Len(temp)) |-> 0] = <<>>
      BY <3>1
    <3>4. frame' = temp
      <4>1. temp \o <<>> = temp
        BY <3>1, ConcatEmptySeq
      <4> QED BY <4>1, <3>3, <2>1 DEF DeliverFrame
    <3> QED BY <3>1, <3>2, <3>4
  <2>4. pcmBufferIndex >= Len(pcmBuffer) /\ audioQueue = <<>>
    BY <2>1, <2>3 DEF DeliverFrame, BufferUsed
  <2> QED BY <2>2, <2>4, Numbers
<1>2. UNCHANGED vars => Step
  BY DEF vars, playVars
<1>3. IInv /\ [Next]_vars => [Step]_vars
  BY <1>1, <1>2
<1> QED BY <1>3, InductiveInvariant, PTL DEF Spec, NoGaps

\* What was queued before the caller began to speak is never heard again
\* (clearQueue).
THEOREM CallerAlwaysSilences == Spec => CallerSilences
<1> DEFINE Step == frame' # frame =>
                     \A i \in 1..FrameSamples : frame'[i] = 0 \/ frame'[i] > silenced
<1>1. ASSUME IInv, Next
      PROVE  Step
  <2> SUFFICES ASSUME frame' # frame, NEW i \in 1..FrameSamples
               PROVE  frame'[i] = 0 \/ frame'[i] > silenced
    BY DEF Step
  <2>1. DeliverFrame
    BY <1>1 DEF Next, BeginAdd, EndAdd, RequestFrame, TakeChunk, CopySamples, Race,
                FrameReceived, Halted, vars, playVars
  <2> DEFINE silence == [j \in 1..(FrameSamples - Len(temp)) |-> 0]
  <2>2. frame' = temp \o silence
    BY <2>1 DEF DeliverFrame
  <2>3. /\ TypeOK /\ FrameInv
        /\ FrameSamples \in Nat /\ Samples \subseteq Nat /\ Start \in Nat
        /\ temp \in Seq(Samples) /\ Len(temp) \in Nat /\ Len(temp) <= FrameSamples
        /\ silenced \in Nat /\ silenced <= Start
    BY <1>1, Numbers DEF IInv
  <2>4. FrameSamples - Len(temp) \in Nat
    BY <2>3
  <2>5. /\ silence \in Seq(Nat) /\ Len(silence) = FrameSamples - Len(temp)
        /\ \A j \in 1..FrameSamples - Len(temp) : silence[j] = 0
    BY <2>4
  <2> HIDE DEF silence
  <2>6. temp \in Seq(Nat)
    BY <2>3, SeqMonotonic
  <2>7. (temp \o silence)[i] = IF i <= Len(temp) THEN temp[i] ELSE silence[i - Len(temp)]
    <3>1. i \in 1..Len(temp) + Len(silence)
      BY <2>3, <2>5
    <3> QED BY <3>1, <2>5, <2>6, ConcatProperties
  <2>8. CASE i <= Len(temp)
    <3>1. i \in 1..Len(temp)
      BY <2>3, <2>8
    <3>2. temp[i] = Start + i
      BY <3>1, <2>3 DEF FrameInv, RunsFrom
    <3> QED BY <3>2, <2>2, <2>3, <2>7, <2>8
  <2>9. CASE ~(i <= Len(temp))
    <3>1. i - Len(temp) \in 1..FrameSamples - Len(temp)
      BY <2>3, <2>9
    <3> QED BY <3>1, <2>2, <2>5, <2>7, <2>9
  <2> QED BY <2>8, <2>9
<1>2. UNCHANGED vars => Step
  BY DEF vars, playVars
<1>3. IInv /\ [Next]_vars => [Step]_vars
  BY <1>1, <1>2
<1> QED BY <1>3, InductiveInvariant, PTL DEF Spec, CallerSilences

\* The port runs the detector as its own specification says: what is proved of
\* the detector alone holds in a call (onFrameReceived).
THEOREM DetectorImplemented == Spec => VadSpec
<1>1. Init => VadInit
  BY DEF Init
<1> QED BY <1>1, DetectorStep, PTL DEF Spec, VadSpec
=============================================================================
