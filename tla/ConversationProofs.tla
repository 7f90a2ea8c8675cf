------------------------- MODULE ConversationProofs -------------------------
(***************************************************************************)
(* Proofs about Conversation, for any number of calls, handlers and turns: *)
(* types, the agent's life, what the voice knows, what is remembered, the  *)
(* shape of the history and who hears an answer.                           *)
(***************************************************************************)
EXTENDS Conversation, TLAPS

-----------------------------------------------------------------------------
\* The initial state has the right types.
LEMMA InitTypeOK == Init => TypeOK
<1> SUFFICES ASSUME Init PROVE TypeOK
  OBVIOUS
<1> USE TurnAssumption DEF Init, Threads, Turns, NoTurn, Faults
<1>1. <<>> \in Seq(Calls) /\ <<>> \in Seq(Turns) /\ <<>> \in Seq(Messages)
  OBVIOUS
<1>2. /\ call \in [Calls -> {"none", "up", "over", "destroyed"}]
      /\ asker \in [Turns -> Calls \cup {NoCall}]
      /\ heard \in [Calls -> SUBSET Turns]
  OBVIOUS
<1>3. /\ pc \in [Threads -> {"idle", "ask", "wait", "record", "note", "speak"}]
      /\ turn \in [Threads -> Turns \cup {NoTurn}]
      /\ known \in [Threads -> SUBSET Turns]
      /\ \A w \in Threads : pc[w] = "idle" /\ turn[w] = NoTurn
  OBVIOUS
<1> QED
  BY <1>1, <1>2, <1>3 DEF TypeOK

\* The turn after the latest is one of the model's.
LEMMA NextTurn ==
  ASSUME TypeOK, turns < MaxTurns
  PROVE  turns + 1 \in Turns /\ turns + 1 # NoTurn
BY TurnAssumption DEF TypeOK, Turns, NoTurn

\* The history holds turns of the model.
LEMMA RecordedTurns ==
  ASSUME history \in Seq(Messages)
  PROVE  Recorded \subseteq Turns
<1> SUFFICES ASSUME NEW i \in 1..Len(history)
             PROVE  history[i].turn \in Turns
  BY DEF Recorded
<1>1. history[i] \in Messages
  OBVIOUS
<1> QED BY <1>1 DEF Messages

\* A thread that has finished is idle and has no turn.
LEMMA FinishTypes ==
  ASSUME TypeOK, NEW w \in Threads, Finish(w)
  PROVE  /\ pc' \in [Threads -> {"idle", "ask", "wait", "record", "note", "speak"}]
         /\ turn' \in [Threads -> Turns \cup {NoTurn}]
         /\ known' \in [Threads -> SUBSET Turns]
         /\ \A x \in Threads : pc'[x] = "idle" <=> turn'[x] = NoTurn
BY DEF TypeOK, Finish

\* Every step keeps the types.
LEMMA TypeStep == TypeOK /\ [Next]_vars => TypeOK'
<1> SUFFICES ASSUME TypeOK, [Next]_vars
             PROVE  TypeOK'
  OBVIOUS
<1>0. <<>> \in Seq(Turns)
  OBVIOUS
<1> USE TurnAssumption DEF TypeOK, Threads, Faults, lifeVars, callVars, netVars, turnVars,
        threadVars, agentVars, conversationVars
<1>1. CASE RemoveAgent \/ RemoveAccount \/ Release \/ JoinTts \/ JoinStt
  <2>1. CASE RemoveAgent \/ RemoveAccount \/ Release
    <3>1. CASE RemoveAgent
      BY <3>1 DEF RemoveAgent
    <3>2. CASE RemoveAccount
      BY <3>2 DEF RemoveAccount
    <3>3. CASE Release
      BY <3>3 DEF Release
    <3> QED BY <2>1, <3>1, <3>2, <3>3
  <2>2. CASE JoinTts
    BY <1>0, <2>2, SMTT(20) DEF JoinTts
  <2>3. CASE JoinStt
    BY <1>0, <2>3, SMTT(20) DEF JoinStt
  <2> QED BY <1>1, <2>1, <2>2, <2>3
<1>2. CASE DeadAgent \/ Race
  BY <1>2 DEF DeadAgent, Race
<1>3. CASE Open \/ Close
  <2>1. CASE Open
    BY <2>1 DEF Open
  <2>2. CASE Close
    <3>1. CASE stt' = "closed" /\ spoken' = <<>> /\ UNCHANGED <<tts, replies>>
      BY <1>0, <2>2, <3>1 DEF Close
    <3>2. CASE tts' = "closed" /\ replies' = <<>> /\ UNCHANGED <<stt, spoken>>
      BY <1>0, <2>2, <3>2 DEF Close
    <3> QED BY <2>2, <3>1, <3>2, Zenon DEF Close
  <2> QED BY <1>3, <2>1, <2>2
<1>4. ASSUME NEW c \in Calls, StartCall(c)
      PROVE  TypeOK'
  BY <1>4 DEF StartCall
<1>5. ASSUME NEW c \in Calls, EndCall(c)
      PROVE  TypeOK'
  <2>1. call' \in [Calls -> {"none", "up", "over", "destroyed"}]
    BY <1>5 DEF EndCall
  <2> QED BY <1>5, <2>1 DEF EndCall
<1>6. ASSUME NEW c \in Calls, Speak(c)
      PROVE  TypeOK'
  BY <1>6, NextTurn DEF Speak
<1>7. ASSUME NEW c \in Calls, Greet(c)
      PROVE  TypeOK'
  BY <1>7, NextTurn DEF Greet, Synthesize
<1>8. CASE Transcribe
  <2>1. spoken' \in Seq(Turns) /\ Head(spoken) \in Turns /\ Head(spoken) # NoTurn
    BY <1>8 DEF Transcribe, Turns, NoTurn
  <2> QED BY <1>8, <2>1 DEF Transcribe, Begin
<1>9. ASSUME NEW w \in Handlers, Think(w)
      PROVE  TypeOK'
  BY <1>9, NextTurn DEF Think, Begin
<1>10. ASSUME NEW w \in Threads, ReadHistory(w)
       PROVE  TypeOK'
  <2>1. Recorded \subseteq Turns
    BY RecordedTurns
  <2> QED BY <1>10, <2>1 DEF ReadHistory
<1>11. ASSUME NEW w \in Threads, ProviderAnswers(w)
       PROVE  TypeOK'
  BY <1>11 DEF ProviderAnswers
<1>12. ASSUME NEW w \in Threads, Record(w)
       PROVE  TypeOK'
  <2>1. turn[w] \in Turns
    BY <1>12 DEF Record
  <2>2. history' \in Seq(Messages)
    BY <1>12, <2>1 DEF Record, Message, Messages
  <2> QED BY <1>12, <2>2 DEF Record
<1>13. ASSUME NEW w \in Threads, NoteMetadata(w)
       PROVE  TypeOK'
  <2>1. CASE w = Whisper
    BY <1>13, <2>1 DEF NoteMetadata
  <2>2. CASE w # Whisper
    <3>1. Finish(w) /\ metadata' \in Turns \cup {NoTurn}
      BY <1>13, <2>2 DEF NoteMetadata
    <3> QED BY <1>13, <3>1, FinishTypes DEF NoteMetadata
  <2> QED BY <2>1, <2>2
<1>14. CASE GenerateAudio
  <2>1. Whisper \in Threads /\ turn[Whisper] \in Turns
    BY <1>14 DEF GenerateAudio
  <2>2. replies' \in Seq(Turns)
    <3>1. Append(replies, turn[Whisper]) \in Seq(Turns)
      BY <2>1
    <3>2. replies' = replies \/ replies' = Append(replies, turn[Whisper])
      BY <1>14 DEF GenerateAudio, Synthesize
    <3> QED BY <3>1, <3>2
  <2>3. fault' \in Faults
    BY <1>14 DEF GenerateAudio
  <2>4. CASE Finish(Whisper)
    BY <1>14, <2>1, <2>2, <2>3, <2>4, FinishTypes DEF GenerateAudio
  <2>5. CASE UNCHANGED threadVars
    BY <1>14, <2>2, <2>3, <2>5 DEF GenerateAudio
  <2> QED BY <1>14, <2>4, <2>5 DEF GenerateAudio
<1>15. CASE PlayChunk
  <2>1. Head(replies) \in Turns /\ Tail(replies) \in Seq(Turns)
    BY <1>15 DEF PlayChunk
  <2>2. replies' \in Seq(Turns)
    BY <1>15, <2>1 DEF PlayChunk
  <2>3. fault' \in Faults
    BY <1>15 DEF PlayChunk
  <2>4. CASE UNCHANGED heard
    BY <1>15, <2>2, <2>3, <2>4 DEF PlayChunk
  <2>5. CASE /\ speaker \in Calls
             /\ heard' = [heard EXCEPT ![speaker] = @ \cup {Head(replies)}]
    <3>1. heard' \in [Calls -> SUBSET Turns]
      BY <2>1, <2>5
    <3> QED BY <1>15, <2>2, <2>3, <3>1 DEF PlayChunk
  <2> QED BY <1>15, <2>4, <2>5 DEF PlayChunk
<1>16. ASSUME NEW w \in Threads, ProviderThrows(w)
       PROVE  TypeOK'
  <2>1. Finish(w)
    BY <1>16 DEF ProviderThrows
  <2> QED BY <1>16, <2>1, FinishTypes DEF ProviderThrows
<1>17. CASE UNCHANGED vars
  BY <1>17 DEF vars
<1> QED
  BY <1>1, <1>2, <1>3, <1>4, <1>5, <1>6, <1>7, <1>8, <1>9, <1>10, <1>11, <1>12, <1>13,
     <1>14, <1>15, <1>16, <1>17 DEF Next

-----------------------------------------------------------------------------
(* The agent's life.                                                       *)

\* Once ~Agent runs there is no owner left who could start a call or think.
NoOwner == life # "alive" => ~Held

LifeInv == NoOwner /\ AgentOutlivesUsers

\* Every step keeps the agent's owners and users apart from its destructor.
LEMMA LifeStep == TypeOK /\ LifeInv /\ [Next]_vars => LifeInv'
<1> SUFFICES ASSUME TypeOK, LifeInv, [Next]_vars
             PROVE  LifeInv'
  OBVIOUS
<1> USE ThreadAssumption DEF TypeOK, LifeInv, NoOwner, Held, AgentOutlivesUsers, Running, Threads,
        lifeVars, callVars, netVars, turnVars, threadVars, agentVars, conversationVars
<1>1. CASE RemoveAgent \/ RemoveAccount
  BY <1>1 DEF RemoveAgent, RemoveAccount
<1>2. CASE Release \/ JoinTts \/ JoinStt
  BY <1>2 DEF Release, JoinTts, JoinStt
<1>3. CASE DeadAgent \/ Race
  BY <1>3 DEF DeadAgent, Race
<1>4. CASE Open \/ Close
  BY <1>4 DEF Open, Close
<1>5. ASSUME NEW c \in Calls, StartCall(c) \/ EndCall(c)
      PROVE  LifeInv'
  BY <1>5 DEF StartCall, EndCall
<1>6. ASSUME NEW c \in Calls, Speak(c) \/ Greet(c)
      PROVE  LifeInv'
  BY <1>6 DEF Speak, Greet
<1>7. CASE Transcribe
  BY <1>7 DEF Transcribe, WholeStt, Begin
<1>8. ASSUME NEW w \in Handlers, Think(w)
      PROVE  LifeInv'
  BY <1>8 DEF Think, Begin
<1>9. ASSUME NEW w \in Threads, ReadHistory(w) \/ ProviderAnswers(w) \/ Record(w)
      PROVE  LifeInv'
  BY <1>9 DEF ReadHistory, ProviderAnswers, Record
<1>10. ASSUME NEW w \in Threads, ProviderThrows(w) \/ NoteMetadata(w)
       PROVE  LifeInv'
  BY <1>10 DEF ProviderThrows, NoteMetadata, Finish
<1>11. CASE GenerateAudio
  BY <1>11 DEF GenerateAudio, Finish
<1>12. CASE PlayChunk
  BY <1>12 DEF PlayChunk
<1>13. CASE UNCHANGED vars
  BY <1>13 DEF vars
<1> QED
  BY <1>1, <1>2, <1>3, <1>4, <1>5, <1>6, <1>7, <1>8, <1>9, <1>10, <1>11, <1>12, <1>13 DEF Next
-----------------------------------------------------------------------------
(* What is remembered, and what the voice knows.                           *)

\* A turn that is answered has been asked; a handler's turn is nobody's call's.
TurnInv ==
  /\ \A t \in Turns : t > turns => asker[t] = NoCall
  /\ \A t \in Recorded : t <= turns
  /\ \A w \in Threads : turn[w] <= turns
  /\ \A w \in Handlers : turn[w] # NoTurn => asker[turn[w]] = NoCall
  /\ \A i \in 1..Len(spoken) : spoken[i] <= turns

\* An answer is recorded before it is on its way to be heard.
AnswerInv ==
  /\ \A w \in Threads : pc[w] \in {"note", "speak"} => turn[w] \in Recorded
  /\ \A i \in 1..Len(replies) : replies[i] \in Recorded \cup greetings

MemoryInv == TurnInv /\ AnswerInv /\ VoiceKnowsEarlier /\ HeardIsRemembered

\* Record adds the thread's turn to what is recorded, and nothing else.
LEMMA RecordAdds ==
  ASSUME TypeOK, NEW w \in Threads, Record(w)
  PROVE  turn[w] \in Turns /\ Recorded' = Recorded \cup {turn[w]}
<1>1. turn[w] \in Turns
  BY DEF Record, TypeOK
<1> DEFINE u == Message("user", turn[w])
           a == Message("assistant", turn[w])
<1>2. u \in Messages /\ a \in Messages /\ u.turn = turn[w] /\ a.turn = turn[w]
  BY <1>1 DEF Message, Messages
<1> HIDE DEF u, a
<1>3. history' = history \o <<u, a>> /\ history \in Seq(Messages)
  BY DEF Record, TypeOK, u, a
<1>4. /\ Len(history') = Len(history) + 2 /\ Len(history) \in Nat
      /\ \A i \in 1..Len(history) : history'[i] = history[i]
      /\ history'[Len(history) + 1] = u /\ history'[Len(history) + 2] = a
      /\ DOMAIN history' = 1..Len(history') /\ DOMAIN history = 1..Len(history)
  BY <1>2, <1>3
<1>5. \A i \in DOMAIN history' :
        i \in DOMAIN history \/ i = Len(history) + 1 \/ i = Len(history) + 2
  BY <1>4
<1>6. Recorded' \subseteq Recorded \cup {turn[w]}
  BY <1>2, <1>4, <1>5 DEF Recorded
<1>7. Len(history) + 1 \in DOMAIN history' /\ DOMAIN history \subseteq DOMAIN history'
  BY <1>4
<1>8. Recorded \cup {turn[w]} \subseteq Recorded'
  BY <1>2, <1>4, <1>7 DEF Recorded
<1> QED BY <1>1, <1>6, <1>8
\* Every step keeps what is remembered.
LEMMA MemoryStep == TypeOK /\ MemoryInv /\ [Next]_vars => MemoryInv'
<1> SUFFICES ASSUME TypeOK, MemoryInv, [Next]_vars
             PROVE  MemoryInv'
  OBVIOUS
<1> USE ThreadAssumption, CallAssumption, TurnAssumption
    DEF MemoryInv, TurnInv, AnswerInv, VoiceKnowsEarlier, HeardIsRemembered, Turns, NoTurn,
        Threads, lifeVars, callVars, netVars, turnVars, threadVars, agentVars, conversationVars
<1>1. history' = history => Recorded' = Recorded
  BY DEF Recorded
<1>2. Recorded \subseteq Turns
  BY RecordedTurns DEF TypeOK
<1>3. CASE RemoveAgent \/ RemoveAccount \/ Release \/ DeadAgent \/ Race
  BY <1>1, <1>3 DEF RemoveAgent, RemoveAccount, Release, DeadAgent, Race
<1>4. CASE JoinTts \/ JoinStt
  BY <1>1, <1>4 DEF JoinTts, JoinStt
<1>5. CASE Open \/ Close
  BY <1>1, <1>5 DEF Open, Close
<1>6. ASSUME NEW c \in Calls, StartCall(c) \/ EndCall(c)
      PROVE  MemoryInv'
  BY <1>1, <1>6 DEF StartCall, EndCall
<1>7. ASSUME NEW c \in Calls, Speak(c)
      PROVE  MemoryInv'
  <2> DEFINE n == turns + 1
  <2>1. /\ n \in Turns /\ turns \in Nat /\ turns' = n
        /\ asker \in [Turns -> Calls \cup {NoCall}]
        /\ asker' = [asker EXCEPT ![n] = c]
        /\ pc' = pc /\ turn' = turn /\ known' = known /\ heard' = heard /\ Recorded' = Recorded
    BY <1>1, <1>7, NextTurn DEF Speak, TypeOK
  <2>2. \A t \in Turns : t <= turns => asker'[t] = asker[t]
    BY <2>1
  <2>3. \A w \in Threads : turn[w] # NoTurn => turn[w] \in Turns
    BY DEF TypeOK
  <2>4. TurnInv'
    <3>1. \A i \in 1..Len(spoken') : spoken'[i] <= turns'
      <4>1. spoken \in Seq(Turns) /\ spoken' = Append(spoken, n)
        BY <1>7 DEF Speak, TypeOK
      <4>2. \A i \in 1..Len(spoken') : spoken'[i] = n \/ (i \in 1..Len(spoken) /\ spoken'[i] = spoken[i])
        BY <2>1, <4>1
      <4> QED BY <2>1, <4>1, <4>2
    <3> QED BY <1>2, <2>1, <2>2, <2>3, <3>1
  <2>5. AnswerInv'
    BY <1>7, <2>1 DEF Speak
  <2>6. VoiceKnowsEarlier' /\ HeardIsRemembered'
    BY <1>2, <1>7, <2>1, <2>2 DEF Speak
  <2> QED BY <2>4, <2>5, <2>6
<1>8. ASSUME NEW c \in Calls, Greet(c)
      PROVE  MemoryInv'
  <2> DEFINE n == turns + 1
  <2>1. /\ n \in Turns /\ turns \in Nat /\ turns' = n
        /\ asker \in [Turns -> Calls \cup {NoCall}]
        /\ asker' = [asker EXCEPT ![n] = c]
        /\ pc' = pc /\ turn' = turn /\ known' = known /\ heard' = heard /\ Recorded' = Recorded
    BY <1>1, <1>8, NextTurn DEF Greet, TypeOK
  <2>2. \A t \in Turns : t <= turns => asker'[t] = asker[t]
    BY <2>1
  <2>3. \A w \in Threads : turn[w] # NoTurn => turn[w] \in Turns
    BY DEF TypeOK
  <2>4. TurnInv'
    <3>1. \A i \in 1..Len(spoken') : spoken'[i] <= turns'
      BY <1>8, <2>1 DEF Greet, TypeOK
    <3> QED BY <1>2, <2>1, <2>2, <2>3, <3>1
  <2>5. AnswerInv'
    <3>1. replies \in Seq(Turns) /\ greetings' = greetings \cup {n}
      BY <1>8 DEF Greet, TypeOK
    <3>2. replies' = replies \/ replies' = Append(replies, n)
      BY <1>8 DEF Greet, Synthesize
    <3>3. \A i \in 1..Len(replies') : replies'[i] = n \/ (i \in 1..Len(replies) /\ replies'[i] = replies[i])
      BY <2>1, <3>1, <3>2
    <3> QED BY <2>1, <3>1, <3>3
  <2>6. VoiceKnowsEarlier' /\ HeardIsRemembered'
    BY <1>2, <1>8, <2>1, <2>2 DEF Greet
  <2> QED BY <2>4, <2>5, <2>6
<1>9. CASE Transcribe
  <2>1. /\ spoken \in Seq(Turns) /\ spoken # <<>> /\ spoken' = Tail(spoken)
        /\ UNCHANGED <<turns, asker, greetings, history, replies, heard>> /\ Recorded' = Recorded
        /\ known' = known
    BY <1>1, <1>9 DEF Transcribe, Begin, TypeOK
  <2>2. /\ Head(spoken) = spoken[1] /\ 1 \in 1..Len(spoken)
        /\ \A i \in 1..Len(spoken') : spoken'[i] = spoken[i + 1] /\ i + 1 \in 1..Len(spoken)
    BY <2>1
  <2>3. \/ pc' = pc /\ turn' = turn
        \/ /\ pc' = [pc EXCEPT ![Whisper] = "ask"]
           /\ turn' = [turn EXCEPT ![Whisper] = spoken[1]]
    BY <1>9, <2>2 DEF Transcribe, Begin
  <2>4. /\ \A w \in Handlers : pc'[w] = pc[w] /\ turn'[w] = turn[w]
        /\ \/ pc'[Whisper] = pc[Whisper] /\ turn'[Whisper] = turn[Whisper]
           \/ pc'[Whisper] = "ask" /\ turn'[Whisper] = spoken[1]
    BY <2>3 DEF TypeOK
  <2>5. TurnInv'
    BY <2>1, <2>2, <2>4
  <2>6. AnswerInv'
    BY <2>1, <2>4
  <2>7. VoiceKnowsEarlier' /\ HeardIsRemembered'
    BY <2>1, <2>4
  <2> QED BY <2>5, <2>6, <2>7
<1>10. ASSUME NEW w \in Handlers, Think(w)
       PROVE  MemoryInv'
  <2> DEFINE n == turns + 1
  <2>1. /\ n \in Turns /\ turns \in Nat /\ turns' = n
        /\ UNCHANGED <<asker, greetings, history, replies, heard, spoken, known>> /\ Recorded' = Recorded
    BY <1>1, <1>10, NextTurn DEF Think, Begin, TypeOK
  <2>2. /\ pc'[w] = "ask" /\ turn'[w] = n
        /\ \A x \in Threads : x # w => pc'[x] = pc[x] /\ turn'[x] = turn[x]
    BY <1>10 DEF Think, Begin, TypeOK
  <2>3. asker[n] = NoCall
    BY <2>1
  <2>4. TurnInv'
    <3>1. \A i \in 1..Len(spoken) : spoken[i] \in Turns
      BY DEF TypeOK
    <3>2. \A x \in Threads : turn[x] \in Turns \cup {NoTurn}
      BY DEF TypeOK
    <3> QED BY <1>2, <2>1, <2>2, <2>3, <3>1, <3>2
  <2>5. AnswerInv'
    BY <2>1, <2>2
  <2>6. VoiceKnowsEarlier' /\ HeardIsRemembered'
    BY <2>1, <2>2
  <2> QED BY <2>4, <2>5, <2>6
<1>11. ASSUME NEW w \in Threads, ReadHistory(w)
       PROVE  MemoryInv'
  BY <1>1, <1>2, <1>11 DEF ReadHistory, TypeOK
<1>12. ASSUME NEW w \in Threads, ProviderAnswers(w)
       PROVE  MemoryInv'
  BY <1>1, <1>12 DEF ProviderAnswers, TypeOK
<1>13. ASSUME NEW w \in Threads, Record(w)
       PROVE  MemoryInv'
  <2>1. /\ turn[w] \in Turns /\ Recorded' = Recorded \cup {turn[w]}
        /\ UNCHANGED <<turns, asker, greetings, replies, heard, spoken, known, turn>>
    BY <1>13, RecordAdds DEF Record
  <2>2. pc'[w] = "note" /\ \A x \in Threads : x # w => pc'[x] = pc[x]
    BY <1>13 DEF Record, TypeOK
  <2>3. TurnInv'
    BY <2>1
  <2>4. AnswerInv'
    BY <2>1, <2>2
  <2>5. VoiceKnowsEarlier' /\ HeardIsRemembered'
    BY <2>1, <2>2
  <2> QED BY <2>3, <2>4, <2>5
<1>14. ASSUME NEW w \in Threads, NoteMetadata(w)
       PROVE  MemoryInv'
  <2>1. UNCHANGED <<turns, asker, greetings, replies, heard, spoken>> /\ Recorded' = Recorded
    BY <1>1, <1>14 DEF NoteMetadata
  <2>2. /\ \A x \in Threads : x # w => pc'[x] = pc[x] /\ turn'[x] = turn[x] /\ known'[x] = known[x]
        /\ pc[w] = "note"
        /\ \/ pc'[w] = "speak" /\ turn'[w] = turn[w]
           \/ pc'[w] = "idle" /\ turn'[w] = NoTurn
    <3>1. CASE w = Whisper
      BY <1>14, <3>1 DEF NoteMetadata, TypeOK
    <3>2. CASE w # Whisper
      BY <1>14, <3>2 DEF NoteMetadata, Finish, TypeOK
    <3> QED BY <3>1, <3>2
  <2>3. TurnInv'
    <3>1. turns \in Nat /\ \A x \in Threads : turn'[x] = turn[x] \/ turn'[x] = 0
      BY <2>2 DEF TypeOK
    <3> QED BY <2>1, <3>1
  <2>4. AnswerInv'
    BY <2>1, <2>2
  <2>5. VoiceKnowsEarlier' /\ HeardIsRemembered'
    BY <2>1, <2>2
  <2> QED BY <2>3, <2>4, <2>5
<1>15. CASE GenerateAudio
  <2>1. /\ UNCHANGED <<turns, asker, greetings, heard, spoken>> /\ Recorded' = Recorded
        /\ turn[Whisper] \in Recorded /\ replies \in Seq(Turns)
    BY <1>1, <1>15 DEF GenerateAudio, TypeOK
  <2>2. /\ \A x \in Handlers : pc'[x] = pc[x] /\ turn'[x] = turn[x]
        /\ pc'[Whisper] \in {"speak", "idle"}
        /\ turn'[Whisper] \in {NoTurn, turn[Whisper]}
        /\ pc'[Whisper] = "speak" => turn'[Whisper] = turn[Whisper]
    BY <1>15 DEF GenerateAudio, Finish, TypeOK
  <2>3. replies' = replies \/ replies' = Append(replies, turn[Whisper])
    BY <1>15 DEF GenerateAudio, Synthesize
  <2>4. TurnInv'
    BY <2>1, <2>2 DEF TypeOK
  <2>5. AnswerInv'
    <3>1. \A i \in 1..Len(replies') :
            replies'[i] = turn[Whisper] \/ (i \in 1..Len(replies) /\ replies'[i] = replies[i])
      <4>1. CASE replies' = replies
        BY <4>1
      <4>2. CASE replies' = Append(replies, turn[Whisper])
        BY <1>2, <2>1, <4>2
      <4> QED BY <2>3, <4>1, <4>2
    <3> QED BY <2>1, <2>2, <3>1
  <2>6. VoiceKnowsEarlier' /\ HeardIsRemembered'
    BY <2>1, <2>2
  <2> QED BY <2>4, <2>5, <2>6
<1>16. CASE PlayChunk
  <2>1. /\ UNCHANGED <<turns, asker, greetings, spoken, pc, turn, known>> /\ Recorded' = Recorded
        /\ replies \in Seq(Turns) /\ replies # <<>>
        /\ replies' = replies \/ replies' = Tail(replies)
    BY <1>1, <1>16, SMTT(20) DEF PlayChunk, TypeOK
  <2>2. Head(replies) \in Recorded \cup greetings
    BY <2>1
  <2>3. \A c \in Calls : heard'[c] \subseteq heard[c] \cup {Head(replies)}
    <3>1. heard \in [Calls -> SUBSET Turns]
      BY <1>16 DEF TypeOK
    <3>2. \/ UNCHANGED heard
          \/ heard' = [heard EXCEPT ![speaker] = @ \cup {Head(replies)}]
      BY <1>16 DEF PlayChunk
    <3> QED BY <3>1, <3>2
  <2>4. \A i \in 1..Len(replies') : \E j \in 1..Len(replies) : replies'[i] = replies[j]
    <3>1. CASE replies' = replies
      BY <3>1
    <3>2. CASE replies' = Tail(replies)
      BY <2>1, <3>2
    <3> QED BY <2>1, <3>1, <3>2
  <2>5. TurnInv' /\ AnswerInv' /\ VoiceKnowsEarlier'
    BY <2>1, <2>4
  <2>6. HeardIsRemembered'
    BY <2>1, <2>2, <2>3
  <2> QED BY <2>5, <2>6
<1>17. ASSUME NEW w \in Threads, ProviderThrows(w)
       PROVE  MemoryInv'
  <2>1. UNCHANGED <<turns, asker, greetings, replies, heard, spoken>> /\ Recorded' = Recorded
    BY <1>1, <1>17 DEF ProviderThrows
  <2>2. /\ \A x \in Threads : x # w => pc'[x] = pc[x] /\ turn'[x] = turn[x] /\ known'[x] = known[x]
        /\ pc'[w] = "idle" /\ turn'[w] = NoTurn
    BY <1>17 DEF ProviderThrows, Finish, TypeOK
  <2>3. TurnInv'
    <3>1. turns \in Nat /\ \A x \in Threads : turn'[x] = turn[x] \/ turn'[x] = 0
      BY <2>2 DEF TypeOK
    <3> QED BY <2>1, <2>2, <3>1
  <2>4. AnswerInv'
    BY <2>1, <2>2
  <2>5. VoiceKnowsEarlier' /\ HeardIsRemembered'
    BY <2>1, <2>2
  <2> QED BY <2>3, <2>4, <2>5
<1>18. CASE UNCHANGED vars
  BY <1>1, <1>18 DEF vars
<1> QED
  BY <1>3, <1>4, <1>5, <1>6, <1>7, <1>8, <1>9, <1>10, <1>11, <1>12, <1>13, <1>14, <1>15,
     <1>16, <1>17, <1>18 DEF Next
-----------------------------------------------------------------------------
(* The history, turn by turn.                                              *)

\* A turn has one place: recorded, with one thread, or once among those spoken.
PlaceInv ==
  /\ \A w \in Threads : pc[w] \in {"ask", "wait", "record"} => turn[w] \notin Recorded
  /\ \A w, x \in Threads : w # x /\ turn[w] # NoTurn => turn[w] # turn[x]
  /\ \A i \in 1..Len(spoken) :
       /\ spoken[i] \notin Recorded
       /\ \A w \in Threads : turn[w] # spoken[i]
       /\ \A j \in 1..Len(spoken) : spoken[i] = spoken[j] => i = j

HistoryInv == PlaceInv /\ HistoryPaired

\* The pairs of a history, one by one.
Paired(h) ==
  /\ Len(h) % 2 = 0
  /\ \A i \in 1..(Len(h) \div 2) :
       \E t \in Turns : h[2 * i - 1] = Message("user", t) /\ h[2 * i] = Message("assistant", t)
  /\ \A i, j \in 1..(Len(h) \div 2) : h[2 * i] = h[2 * j] => i = j

\* HistoryPaired without the pairs' names.
LEMMA PairedHistory == HistoryPaired <=> Paired(history)
<1> DEFINE Pairs == 1..(Len(history) \div 2)
           Pair(i) == <<history[2 * i - 1], history[2 * i]>>
<1>1. \A i : \A t \in Turns :
        Pair(i) = <<Message("user", t), Message("assistant", t)>> <=>
          history[2 * i - 1] = Message("user", t) /\ history[2 * i] = Message("assistant", t)
  OBVIOUS
<1>2. ASSUME NEW i \in Pairs, NEW j \in Pairs,
             \A k \in Pairs : \E t \in Turns :
               history[2 * k - 1] = Message("user", t) /\ history[2 * k] = Message("assistant", t)
      PROVE  Pair(i) = Pair(j) <=> history[2 * i] = history[2 * j]
  <2>1. PICK t \in Turns :
          history[2 * i - 1] = Message("user", t) /\ history[2 * i] = Message("assistant", t)
    BY <1>2
  <2>2. PICK s \in Turns :
          history[2 * j - 1] = Message("user", s) /\ history[2 * j] = Message("assistant", s)
    BY <1>2
  <2>3. Message("assistant", t) = Message("assistant", s) => t = s
    BY DEF Message
  <2> QED BY <2>1, <2>2, <2>3
<1> QED BY <1>1, <1>2 DEF HistoryPaired, Paired

\* The same of the next state.
LEMMA PairedHistoryNext == HistoryPaired' <=> Paired(history')
<1>1. (HistoryPaired <=> Paired(history))'
  BY PairedHistory, PTL
<1> QED BY <1>1

\* A turn that is not in a paired history can be added to it.
LEMMA AddPair ==
  ASSUME NEW h \in Seq(Messages), Paired(h), NEW t \in Turns, \A i \in 1..Len(h) : h[i].turn # t
  PROVE  Paired(h \o <<Message("user", t), Message("assistant", t)>>)
<1> DEFINE u == Message("user", t)
           a == Message("assistant", t)
           g == h \o <<u, a>>
           n == Len(h) \div 2
<1>1. u \in Messages /\ a \in Messages /\ u.turn = t /\ a.turn = t
  BY DEF Message, Messages
<1> HIDE DEF u, a
<1>2. /\ Len(h) \in Nat /\ Len(g) = Len(h) + 2
      /\ \A i \in 1..Len(h) : g[i] = h[i]
      /\ g[Len(h) + 1] = u /\ g[Len(h) + 2] = a
  BY <1>1
<1>3. Len(h) % 2 = 0
  BY DEF Paired
<1>4. Len(h) = 2 * n /\ n \in Nat
  BY <1>2, <1>3
<1>5. Len(g) % 2 = 0 /\ Len(g) \div 2 = n + 1
  BY <1>2, <1>4
<1> HIDE DEF g, n
<1>6. \A i \in 1..n : /\ 2 * i - 1 \in 1..Len(h) /\ 2 * i \in 1..Len(h)
                      /\ g[2 * i - 1] = h[2 * i - 1] /\ g[2 * i] = h[2 * i]
  BY <1>2, <1>4
<1>7. g[2 * (n + 1) - 1] = u /\ g[2 * (n + 1)] = a
  BY <1>2, <1>4
<1>8. \A i \in 1..n : g[2 * i] # a
  BY <1>1, <1>6
<1>9. \A i \in 1..(n + 1) : i \in 1..n \/ i = n + 1
  BY <1>4
<1>10. \A i \in 1..(n + 1) : \E s \in Turns :
         g[2 * i - 1] = Message("user", s) /\ g[2 * i] = Message("assistant", s)
  BY <1>6, <1>7, <1>9 DEF Paired, n, u, a
<1>11. \A i, j \in 1..(n + 1) : g[2 * i] = g[2 * j] => i = j
  BY <1>6, <1>7, <1>8, <1>9 DEF Paired, n
<1> QED BY <1>5, <1>10, <1>11 DEF Paired, g, u, a

\* Every step keeps each turn in its place, and the history paired.
LEMMA HistoryStep == TypeOK /\ MemoryInv /\ HistoryInv /\ [Next]_vars => HistoryInv'
<1> SUFFICES ASSUME TypeOK, MemoryInv, HistoryInv, [Next]_vars
             PROVE  HistoryInv'
  OBVIOUS
<1> USE ThreadAssumption, TurnAssumption
    DEF HistoryInv, PlaceInv, Turns, NoTurn, Threads, lifeVars, callVars, netVars, turnVars,
        threadVars, agentVars, conversationVars
<1>1. history' = history => Recorded' = Recorded /\ HistoryPaired'
  <2> SUFFICES ASSUME history' = history
               PROVE  Recorded' = Recorded /\ HistoryPaired'
    OBVIOUS
  <2>1. Recorded' = Recorded
    BY DEF Recorded
  <2>2. Paired(history)
    BY PairedHistory
  <2>3. Paired(history')
    BY <2>2
  <2> QED BY <2>1, <2>3, PairedHistoryNext
<1>2. /\ \A t \in Recorded : t <= turns
      /\ \A w \in Threads : turn[w] <= turns
      /\ \A i \in 1..Len(spoken) : spoken[i] <= turns
      /\ spoken \in Seq(Turns)
  BY DEF MemoryInv, TurnInv, TypeOK
<1>3. CASE UNCHANGED <<history, threadVars>> /\ spoken' \in {spoken, <<>>}
  BY <1>1, <1>3
<1>4. ASSUME \/ RemoveAgent \/ RemoveAccount \/ Release \/ JoinTts \/ JoinStt \/ DeadAgent \/ Race
             \/ Open \/ Close \/ PlayChunk \/ UNCHANGED vars
             \/ \E c \in Calls : StartCall(c) \/ EndCall(c) \/ Greet(c)
      PROVE  UNCHANGED <<history, threadVars>> /\ spoken' \in {spoken, <<>>}
  BY <1>4 DEF RemoveAgent, RemoveAccount, Release, JoinTts, JoinStt, DeadAgent, Race, Open, Close,
     PlayChunk, StartCall, EndCall, Greet, vars
<1>5. ASSUME NEW c \in Calls, Speak(c)
      PROVE  HistoryInv'
  <2>1. /\ UNCHANGED <<history, turn, pc>> /\ turns \in Nat
        /\ spoken' = Append(spoken, turns + 1) /\ turns + 1 \in Turns
    BY <1>5, NextTurn DEF Speak, TypeOK
  <2>2. \A i \in 1..Len(spoken') :
          \/ i \in 1..Len(spoken) /\ spoken'[i] = spoken[i]
          \/ i = Len(spoken) + 1 /\ spoken'[i] = turns + 1
    BY <1>2, <2>1
  <2>3. \A w \in Threads : turn[w] \in Nat
    BY DEF TypeOK
  <2>4. \A t \in Recorded : t \in Nat
    BY RecordedTurns DEF TypeOK
  <2>5. \A i \in 1..Len(spoken) : spoken[i] # turns + 1
    BY <1>2, <2>1
  <2>6. turns + 1 \notin Recorded /\ \A w \in Threads : turn[w] # turns + 1
    BY <1>2, <2>1, <2>3, <2>4
  <2>7. \A i \in 1..Len(spoken') :
          /\ spoken'[i] \notin Recorded
          /\ \A w \in Threads : turn[w] # spoken'[i]
    BY <2>2, <2>6
  <2>8. \A i, j \in 1..Len(spoken') : spoken'[i] = spoken'[j] => i = j
    BY <2>2, <2>5
  <2> QED BY <1>1, <2>1, <2>7, <2>8
<1>6. CASE Transcribe
  <2>1. /\ spoken # <<>> /\ spoken' = Tail(spoken) /\ history' = history
        /\ \/ UNCHANGED <<pc, turn>>
           \/ /\ pc' = [pc EXCEPT ![Whisper] = "ask"]
              /\ turn' = [turn EXCEPT ![Whisper] = Head(spoken)]
    BY <1>6 DEF Transcribe, Begin
  <2>2. /\ Head(spoken) = spoken[1] /\ 1 \in 1..Len(spoken)
        /\ \A i \in 1..Len(spoken') : spoken'[i] = spoken[i + 1] /\ i + 1 \in 1..Len(spoken) /\ i + 1 # 1
    BY <1>2, <2>1
  <2>3. /\ \A w \in Handlers : pc'[w] = pc[w] /\ turn'[w] = turn[w]
        /\ \/ pc'[Whisper] = pc[Whisper] /\ turn'[Whisper] = turn[Whisper]
           \/ pc'[Whisper] = "ask" /\ turn'[Whisper] = spoken[1]
    BY <2>1, <2>2 DEF TypeOK
  <2>4. \A i, j \in 1..Len(spoken') : spoken'[i] = spoken'[j] => i = j
    BY <1>2, <2>1, <2>2
  <2> QED BY <1>1, <2>1, <2>2, <2>3, <2>4
<1>7. ASSUME NEW w \in Handlers, Think(w)
      PROVE  HistoryInv'
  <2>1. /\ UNCHANGED <<history, spoken>> /\ turns \in Nat /\ turns + 1 \in Turns
        /\ pc'[w] = "ask" /\ turn'[w] = turns + 1
        /\ \A x \in Threads : x # w => pc'[x] = pc[x] /\ turn'[x] = turn[x]
    BY <1>7, NextTurn DEF Think, Begin, TypeOK
  <2>2. \A x \in Threads : turn[x] \in Nat
    BY DEF TypeOK
  <2>3. \A t \in Recorded : t \in Nat
    BY RecordedTurns DEF TypeOK
  <2>4. turns + 1 \notin Recorded /\ \A x \in Threads : turn[x] # turns + 1
    BY <1>2, <2>1, <2>2, <2>3
  <2>5. \A i \in 1..Len(spoken) : spoken[i] # turns + 1
    BY <1>2, <2>1
  <2> QED BY <1>1, <2>1, <2>4, <2>5
<1>8. ASSUME NEW w \in Threads, ReadHistory(w) \/ ProviderAnswers(w)
      PROVE  HistoryInv'
  <2>1. UNCHANGED <<history, spoken, turn>> /\ pc[w] \in {"ask", "wait"}
        /\ \A x \in Threads : x # w => pc'[x] = pc[x]
    BY <1>8 DEF ReadHistory, ProviderAnswers, TypeOK
  <2> QED BY <1>1, <2>1
<1>9. ASSUME NEW w \in Threads, Record(w)
      PROVE  HistoryInv'
  <2>1. /\ turn[w] \in Turns /\ Recorded' = Recorded \cup {turn[w]}
        /\ UNCHANGED <<spoken, turn>> /\ pc[w] = "record"
    BY <1>9, RecordAdds DEF Record
  <2>2. pc'[w] = "note" /\ \A x \in Threads : x # w => pc'[x] = pc[x]
    BY <1>9 DEF Record, TypeOK
  <2>3. HistoryPaired'
    <3>1. turn[w] \notin Recorded
      BY <2>1
    <3>2. \A i \in 1..Len(history) : history[i].turn # turn[w]
      BY <3>1 DEF Recorded, TypeOK
    <3>3. Paired(history')
      BY <1>9, <2>1, <3>2, PairedHistory, AddPair DEF Record, TypeOK
    <3> QED BY <3>3, PairedHistoryNext
  <2> QED BY <2>1, <2>2, <2>3
<1>10. ASSUME NEW w \in Threads,
              ProviderThrows(w) \/ NoteMetadata(w) \/ (w = Whisper /\ GenerateAudio)
       PROVE  HistoryInv'
  <2>1. /\ UNCHANGED <<history, spoken>>
        /\ \A x \in Threads : x # w => pc'[x] = pc[x] /\ turn'[x] = turn[x]
        /\ pc'[w] \in {"speak", "idle"} /\ turn'[w] \in {turn[w], NoTurn}
    <3>1. CASE UNCHANGED <<history, spoken>> /\ Finish(w)
      BY <3>1 DEF Finish, TypeOK
    <3>2. CASE UNCHANGED <<history, spoken, turn>> /\ pc' = [pc EXCEPT ![w] = "speak"]
      BY <3>2 DEF TypeOK
    <3> QED BY <1>10, <3>1, <3>2 DEF ProviderThrows, NoteMetadata, GenerateAudio, TypeOK
  <2>2. \A i \in 1..Len(spoken) : spoken[i] # NoTurn
    BY <1>2
  <2> QED BY <1>1, <2>1, <2>2
<1> QED BY <1>3, <1>4, <1>5, <1>6, <1>7, <1>8, <1>9, <1>10 DEF Next

-----------------------------------------------------------------------------
(* Who hears an answer.                                                    *)

\* Every call is constructed once, and the callback is the newest call's.
StartedInv ==
  /\ \A i, j \in 1..Len(started) : started[i] = started[j] => i = j
  /\ \A c \in Calls : call[c] # "none" <=> \E i \in 1..Len(started) : started[i] = c
  /\ speaker = IF started = <<>> THEN NoCall ELSE started[Len(started)]

\* What is on its way to be heard was said, or is a greeting, on a call.
AskerInv ==
  /\ \A t \in Turns : asker[t] # NoCall => call[asker[t]] # "none"
  /\ \A i \in 1..Len(spoken) : asker[spoken[i]] # NoCall
  /\ turn[Whisper] # NoTurn => asker[turn[Whisper]] # NoCall
  /\ \A i \in 1..Len(replies) : asker[replies[i]] # NoCall
  /\ \A c \in Calls : heard[c] # {} => call[c] # "none"

OrderInv == StartedInv /\ AskerInv /\ NewestCallSpeaks

\* A call's position is where it is in the list.
LEMMA PositionIs ==
  ASSUME StartedInv, started \in Seq(Calls), NEW i \in 1..Len(started)
  PROVE  Position(started[i]) = i
BY DEF StartedInv, Position

\* A new call comes after all others, which keep their positions.
LEMMA NewPosition ==
  ASSUME TypeOK, StartedInv, NEW c \in Calls, StartCall(c), StartedInv', NEW d \in Calls, call[d] # "none"
  PROVE  Position(d)' = Position(d)
<1>1. PICK i \in 1..Len(started) : started[i] = d
  BY DEF StartedInv
<1>2. started \in Seq(Calls) /\ started' = Append(started, c)
  BY DEF TypeOK, StartCall
<1>3. i \in 1..Len(started') /\ started'[i] = d
  BY <1>1, <1>2
<1>4. Position(d) = i
  BY <1>1, <1>2, PositionIs
<1>5. Position(d)' = i
  BY <1>2, <1>3 DEF StartedInv, Position
<1> QED BY <1>4, <1>5

\* Every step keeps the order of calls and answers.
LEMMA OrderStep == TypeOK /\ MemoryInv /\ OrderInv /\ [Next]_vars => OrderInv'
<1> SUFFICES ASSUME TypeOK, MemoryInv, OrderInv, [Next]_vars
             PROVE  OrderInv'
  OBVIOUS
<1> USE CallAssumption, TurnAssumption
    DEF OrderInv, StartedInv, AskerInv, NewestCallSpeaks, Turns, NoTurn, lifeVars, callVars, netVars,
        turnVars, threadVars, agentVars, conversationVars
<1>0. /\ spoken \in Seq(Turns) /\ replies \in Seq(Turns) /\ started \in Seq(Calls)
      /\ call \in [Calls -> {"none", "up", "over", "destroyed"}]
      /\ asker \in [Turns -> Calls \cup {NoCall}]
      /\ heard \in [Calls -> SUBSET Turns]
      /\ Whisper \in Threads
  BY DEF TypeOK, Threads
<1>1. started' = started => \A c : Position(c)' = Position(c)
  BY DEF Position
<1>2. CASE UNCHANGED <<callVars, asker, turn, heard, fault>> /\ spoken' \in {spoken, <<>>}
           /\ replies' \in {replies, <<>>}
  BY <1>1, <1>2
<1>3. ASSUME \/ RemoveAgent \/ RemoveAccount \/ Release \/ JoinTts \/ JoinStt \/ Open \/ Close
             \/ UNCHANGED vars
             \/ \E w \in Threads : ReadHistory(w) \/ ProviderAnswers(w) \/ Record(w)
      PROVE  UNCHANGED <<callVars, asker, turn, heard, fault>> /\ spoken' \in {spoken, <<>>}
             /\ replies' \in {replies, <<>>}
  BY <1>3 DEF RemoveAgent, RemoveAccount, Release, JoinTts, JoinStt, Open, Close, ReadHistory,
     ProviderAnswers, Record, vars
<1>4. CASE DeadAgent \/ Race
  BY <1>1, <1>4 DEF DeadAgent, Race
<1>5. ASSUME NEW c \in Calls, StartCall(c)
      PROVE  OrderInv'
  <2>1. /\ call[c] = "none" /\ call' = [call EXCEPT ![c] = "up"]
        /\ started' = Append(started, c) /\ speaker' = c
        /\ UNCHANGED <<asker, spoken, replies, turn, heard, fault>> /\ fault = "none"
    BY <1>5 DEF StartCall, Running
  <2>2. /\ Len(started') = Len(started) + 1 /\ Len(started) \in Nat /\ started' # <<>>
        /\ \A i \in 1..Len(started) : started'[i] = started[i] /\ started[i] # c
        /\ started'[Len(started) + 1] = c
        /\ \A i \in 1..Len(started') : i \in 1..Len(started) \/ i = Len(started) + 1
    BY <1>0, <2>1
  <2>3. StartedInv'
    BY <1>0, <2>1, <2>2
  <2>4. \A d \in Calls : call[d] # "none" => call'[d] # "none" /\ Position(d)' = Position(d)
    BY <1>0, <1>5, <2>1, <2>3, NewPosition
  <2>5. AskerInv'
    BY <1>0, <2>1, <2>4
  <2>6. ASSUME NEW d \in Calls, NEW t \in heard[d]
        PROVE  asker[t] # NoCall /\ Position(asker[t])' <= Position(d)'
    <3>1. asker[t] \in Calls /\ call[asker[t]] # "none" /\ call[d] # "none"
      BY <1>0, <2>6
    <3>2. asker' = asker
      BY <2>1
    <3>3. Position(asker[t])' = Position(asker[t]) /\ Position(d)' = Position(d)
      BY <2>4, <3>1, <3>2
    <3> QED BY <2>6, <3>1, <3>3
  <2>7. NewestCallSpeaks'
    BY <2>1, <2>6
  <2> QED BY <2>3, <2>5, <2>7
<1>6. ASSUME NEW c \in Calls, EndCall(c)
      PROVE  OrderInv'
  <2>1. /\ \A d \in Calls : call'[d] # "none" <=> call[d] # "none"
        /\ UNCHANGED <<started, speaker, asker, spoken, replies, turn, heard, fault>> /\ fault = "none"
    BY <1>0, <1>6 DEF EndCall, Running
  <2> QED BY <1>0, <1>1, <2>1
<1>7. ASSUME NEW c \in Calls, Speak(c) \/ Greet(c)
      PROVE  OrderInv'
  <2> DEFINE n == turns + 1
  <2>1. /\ n \in Turns /\ call[c] = "up" /\ asker' = [asker EXCEPT ![n] = c]
        /\ UNCHANGED <<callVars, turn, heard, fault>>
        /\ spoken' \in {spoken, Append(spoken, n)} /\ replies' \in {replies, Append(replies, n)}
    BY <1>7, NextTurn DEF Speak, Greet, Synthesize
  <2>2. asker[n] = NoCall
    BY <2>1 DEF MemoryInv, TurnInv, TypeOK
  <2> HIDE DEF n
  <2>3. \A t \in Turns : asker[t] # NoCall => asker'[t] = asker[t]
    BY <1>0, <2>1, <2>2
  <2>4. asker'[n] = c /\ asker' \in [Turns -> Calls \cup {NoCall}]
    BY <1>0, <2>1
  <2>5. ASSUME NEW s \in Seq(Turns)
        PROVE  \A i \in 1..Len(Append(s, n)) :
                 Append(s, n)[i] = n \/ \E j \in 1..Len(s) : Append(s, n)[i] = s[j]
    <3>1. ASSUME NEW i \in 1..Len(Append(s, n))
          PROVE  Append(s, n)[i] = n \/ (i \in 1..Len(s) /\ Append(s, n)[i] = s[i])
      BY <2>1
    <3> QED BY <3>1
  <2>6. /\ \A i \in 1..Len(spoken') : spoken'[i] = n \/ \E j \in 1..Len(spoken) : spoken'[i] = spoken[j]
        /\ \A i \in 1..Len(replies') : replies'[i] = n \/ \E j \in 1..Len(replies) : replies'[i] = replies[j]
    <3>1. spoken \in Seq(Turns) /\ replies \in Seq(Turns)
      BY <1>0
    <3>2. \A i \in 1..Len(spoken') : spoken'[i] = n \/ \E j \in 1..Len(spoken) : spoken'[i] = spoken[j]
      <4>1. CASE spoken' = spoken
        BY <4>1, Zenon
      <4>2. CASE spoken' = Append(spoken, n)
        <5>1. \A i \in 1..Len(Append(spoken, n)) :
                Append(spoken, n)[i] = n \/ \E j \in 1..Len(spoken) : Append(spoken, n)[i] = spoken[j]
          BY <2>5, <3>1
        <5> QED BY <4>2, <5>1
      <4> QED BY <2>1, <4>1, <4>2
    <3>3. \A i \in 1..Len(replies') : replies'[i] = n \/ \E j \in 1..Len(replies) : replies'[i] = replies[j]
      <4>1. CASE replies' = replies
        BY <4>1, Zenon
      <4>2. CASE replies' = Append(replies, n)
        <5>1. \A i \in 1..Len(Append(replies, n)) :
                Append(replies, n)[i] = n \/ \E j \in 1..Len(replies) : Append(replies, n)[i] = replies[j]
          BY <2>5, <3>1
        <5> QED BY <4>2, <5>1
      <4> QED BY <2>1, <4>1, <4>2
    <3> QED BY <3>2, <3>3
  <2>7. turn[Whisper] \in Turns \cup {NoTurn}
    BY <1>0 DEF TypeOK
  <2>8. AskerInv'
    <3>1. c # NoCall /\ call[c] # "none" /\ call' = call
      BY <1>0, <2>1
    <3>2. /\ \A i \in 1..Len(spoken) : spoken[i] \in Turns /\ asker[spoken[i]] # NoCall
          /\ \A i \in 1..Len(replies) : replies[i] \in Turns /\ asker[replies[i]] # NoCall
      <4>1. spoken \in Seq(Turns) /\ replies \in Seq(Turns)
        BY <1>0
      <4>2. AskerInv
        BY <1>0
      <4> QED BY <4>1, <4>2
    <3>3. ASSUME NEW t \in Turns, asker'[t] # NoCall
          PROVE  call'[asker'[t]] # "none"
      <4>1. CASE t = n
        BY <2>4, <3>1, <4>1
      <4>2. CASE t # n
        <5>1. asker'[t] = asker[t]
          BY <1>0, <2>1, <4>2
        <5> QED BY <1>0, <3>1, <3>3, <5>1
      <4> QED BY <4>1, <4>2
    <3>4. ASSUME NEW i \in 1..Len(spoken')
          PROVE  asker'[spoken'[i]] # NoCall
      <4>1. CASE spoken'[i] = n
        BY <2>4, <3>1, <4>1, Zenon
      <4>2. ASSUME NEW j \in 1..Len(spoken), spoken'[i] = spoken[j]
            PROVE  asker'[spoken'[i]] # NoCall
        BY <2>3, <3>2, <4>2, Zenon
      <4> QED BY <2>6, <4>1, <4>2
    <3>5. ASSUME NEW i \in 1..Len(replies')
          PROVE  asker'[replies'[i]] # NoCall
      <4>1. CASE replies'[i] = n
        BY <2>4, <3>1, <4>1, Zenon
      <4>2. ASSUME NEW j \in 1..Len(replies), replies'[i] = replies[j]
            PROVE  asker'[replies'[i]] # NoCall
        BY <2>3, <3>2, <4>2, Zenon
      <4> QED BY <2>6, <4>1, <4>2
    <3> QED BY <2>1, <2>3, <2>7, <3>3, <3>4, <3>5
  <2>9. NewestCallSpeaks'
    BY <1>0, <1>1, <2>1, <2>3
  <2> QED BY <2>1, <2>8, <2>9
<1>8. CASE Transcribe
  <2>1. /\ UNCHANGED <<callVars, asker, heard, replies, fault>>
        /\ spoken # <<>> /\ spoken' = Tail(spoken)
        /\ turn'[Whisper] \in {turn[Whisper], Head(spoken)}
    BY <1>0, <1>8 DEF Transcribe, Begin, TypeOK
  <2>2. /\ Head(spoken) = spoken[1] /\ 1 \in 1..Len(spoken)
        /\ \A i \in 1..Len(spoken') : spoken'[i] = spoken[i + 1] /\ i + 1 \in 1..Len(spoken)
    BY <1>0, <2>1
  <2> QED BY <1>1, <2>1, <2>2
<1>9. ASSUME NEW w \in Handlers, Think(w)
      PROVE  OrderInv'
  <2>1. UNCHANGED <<callVars, asker, heard, replies, spoken, fault>> /\ turn'[Whisper] = turn[Whisper]
    BY <1>0, <1>9, ThreadAssumption DEF Think, Begin, TypeOK
  <2> QED BY <1>1, <2>1
<1>10. ASSUME NEW w \in Threads, ProviderThrows(w) \/ NoteMetadata(w)
       PROVE  OrderInv'
  <2>1. /\ UNCHANGED <<callVars, asker, heard, replies, spoken, fault>>
        /\ turn'[Whisper] \in {turn[Whisper], NoTurn}
    BY <1>0, <1>10 DEF ProviderThrows, NoteMetadata, Finish, TypeOK
  <2> QED BY <1>1, <2>1
<1>11. CASE GenerateAudio
  <2>1. /\ UNCHANGED <<callVars, asker, heard, spoken>> /\ fault' \in {fault, "agent"}
        /\ turn'[Whisper] \in {turn[Whisper], NoTurn}
        /\ replies' \in {replies, Append(replies, turn[Whisper])}
        /\ turn[Whisper] # NoTurn /\ turn[Whisper] \in Turns
    BY <1>0, <1>11 DEF GenerateAudio, Synthesize, Finish, TypeOK
  <2>2. \A i \in 1..Len(replies') :
          replies'[i] = turn[Whisper] \/ (i \in 1..Len(replies) /\ replies'[i] = replies[i])
    <3>1. replies \in Seq(Turns)
      BY <1>0
    <3>2. CASE replies' = replies
      BY <3>2
    <3>3. CASE replies' = Append(replies, turn[Whisper])
      BY <2>1, <3>1, <3>3
    <3> QED BY <2>1, <3>2, <3>3
  <2> QED BY <1>1, <2>1, <2>2
<1>12. CASE PlayChunk
  <2>1. /\ UNCHANGED <<callVars, asker, spoken, turn>> /\ fault = "none"
        /\ replies # <<>> /\ replies' \in {replies, Tail(replies)}
    BY <1>12 DEF PlayChunk, Running
  <2>2. /\ Head(replies) = replies[1] /\ 1 \in 1..Len(replies) /\ replies[1] \in Turns
        /\ \A i \in 1..Len(replies') : \E j \in 1..Len(replies) : replies'[i] = replies[j]
    <3>1. Head(replies) = replies[1] /\ 1 \in 1..Len(replies) /\ replies[1] \in Turns
      BY <1>0, <2>1
    <3>2. CASE replies' = replies
      BY <3>1, <3>2
    <3>3. CASE replies' = Tail(replies)
      BY <1>0, <2>1, <3>1, <3>3
    <3> QED BY <2>1, <3>1, <3>2, <3>3
  <2>3. asker[replies[1]] \in Calls /\ call[asker[replies[1]]] # "none"
    BY <1>0, <2>2
  <2>4. PICK n \in 1..Len(started) : started[n] = asker[replies[1]]
    BY <2>3
  <2>5. /\ started # <<>> /\ speaker = started[Len(started)] /\ Len(started) \in 1..Len(started)
        /\ speaker \in Calls /\ call[speaker] # "none"
    BY <1>0, <2>4
  <2>6. Position(asker[replies[1]]) <= Position(speaker)
    <3>1. Position(started[n]) = n
      BY <1>0, <2>4, PositionIs
    <3>2. Position(started[Len(started)]) = Len(started)
      BY <1>0, <2>5, PositionIs
    <3> QED BY <2>4, <2>5, <3>1, <3>2
  <2>7. \/ UNCHANGED <<heard, fault>>
        \/ heard' = heard /\ call[speaker] = "destroyed"
        \/ fault' = fault /\ heard' = [heard EXCEPT ![speaker] = @ \cup {replies[1]}]
    BY <1>12, <2>2 DEF PlayChunk
  <2>8. \A c \in Calls : \A t \in heard'[c] : t \in heard[c] \/ (c = speaker /\ t = replies[1])
    BY <1>0, <2>5, <2>7
  <2>9. fault' = "call" => call'[Last(started')] = "destroyed"
    BY <2>1, <2>5, <2>7 DEF Last
  <2>10. NewestCallSpeaks'
    BY <1>1, <2>1, <2>3, <2>6, <2>8, <2>9
  <2>11. AskerInv'
    <3>1. \A c \in Calls : heard'[c] # {} => call'[c] # "none"
      BY <2>1, <2>5, <2>8
    <3>2. ASSUME NEW i \in 1..Len(replies')
          PROVE  asker'[replies'[i]] # NoCall
      <4>1. PICK j \in 1..Len(replies) : replies'[i] = replies[j]
        BY <2>2
      <4> QED BY <2>1, <4>1
    <3> QED BY <2>1, <3>1, <3>2
  <2> QED BY <2>1, <2>10, <2>11
<1> QED BY <1>2, <1>3, <1>4, <1>5, <1>6, <1>7, <1>8, <1>9, <1>10, <1>11, <1>12 DEF Next

-----------------------------------------------------------------------------
(* The theorems.                                                           *)

IInv == TypeOK /\ LifeInv /\ MemoryInv /\ HistoryInv /\ OrderInv

\* The initial state satisfies the inductive invariant.
LEMMA InitIInv == Init => IInv
<1> SUFFICES ASSUME Init PROVE IInv
  OBVIOUS
<1>1. TypeOK
  BY InitTypeOK
<1>2. LifeInv
  BY DEF Init, LifeInv, NoOwner, AgentOutlivesUsers
<1>3. Recorded = {}
  BY DEF Init, Recorded
<1>4. MemoryInv
  BY <1>3 DEF Init, MemoryInv, TurnInv, AnswerInv, VoiceKnowsEarlier, HeardIsRemembered, NoTurn,
              Threads
<1>5. HistoryInv
  <2>1. Len(history) = 0 /\ 0 % 2 = 0 /\ 0 \div 2 = 0
    BY DEF Init
  <2>2. Paired(history)
    BY <2>1 DEF Paired
  <2> QED BY <1>3, <2>2, PairedHistory DEF Init, HistoryInv, PlaceInv, NoTurn, Threads
<1>6. OrderInv
  BY DEF Init, OrderInv, StartedInv, AskerInv, NewestCallSpeaks, Threads
<1> QED BY <1>1, <1>2, <1>4, <1>5, <1>6 DEF IInv

\* The inductive invariant holds in every reachable state of the conversation.
THEOREM InductiveInvariant == Spec => []IInv
<1>1. IInv /\ [Next]_vars => IInv'
  BY TypeStep, LifeStep, MemoryStep, HistoryStep, OrderStep DEF IInv
<1> QED BY InitIInv, <1>1, PTL DEF Spec

\* Every variable keeps its type (Agent, Call and the web socket clients).
THEOREM TypeCorrect == Spec => []TypeOK
<1>1. IInv => TypeOK
  BY DEF IInv
<1> QED BY <1>1, InductiveInvariant, PTL

\* However calls, requests and deletions interleave, the agent outlives all
\* that own it and the thread that does not (Account::m_agent, ~Agent,
\* ~AbstractWebSocketClient).
THEOREM AgentOutlivesItsUsers == Spec => []AgentOutlivesUsers
<1>1. IInv => AgentOutlivesUsers
  BY DEF IInv, LifeInv
<1> QED BY <1>1, InductiveInvariant, PTL

\* Of any number of calls and thinking clients, what is said on a call is
\* answered knowing all that was said before (Agent::process_message).
THEOREM VoiceKnowsWhatWasSaid == Spec => []VoiceKnowsEarlier
<1>1. IInv => VoiceKnowsEarlier
  BY DEF IInv, MemoryInv
<1> QED BY <1>1, InductiveInvariant, PTL

\* Whatever callers hear is in the history or a greeting (process_message, the
\* transcription callback of connect_services).
THEOREM WhatIsHeardIsRemembered == Spec => []HeardIsRemembered
<1>1. IInv => HeardIsRemembered
  BY DEF IInv, MemoryInv
<1> QED BY <1>1, InductiveInvariant, PTL

\* However many threads answer, the history is question and answer of one turn
\* after the other, each once (process_message, history_mutex_).
THEOREM HistoryIsPaired == Spec => []HistoryPaired
<1>1. IInv => HistoryPaired
  BY DEF IInv, HistoryInv
<1> QED BY <1>1, InductiveInvariant, PTL

\* Of any number of calls, an answer is heard on the call that asked or on a
\* later one, and only the newest call can be called back when it is destroyed
\* (the constructor of Call, set_speech_callback).
THEOREM NewestCallAlwaysSpeaks == Spec => []NewestCallSpeaks
<1>1. IInv => NewestCallSpeaks
  BY DEF IInv, OrderInv
<1> QED BY <1>1, InductiveInvariant, PTL
=============================================================================
