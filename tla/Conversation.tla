---------------------------- MODULE Conversation ----------------------------
(***************************************************************************)
(* One agent and the calls connected to it (agent.cpp, call.cpp): what a   *)
(* caller says is transcribed by the speech-to-text server, answered by    *)
(* the LLM and synthesized by the text-to-speech server; HTTP clients      *)
(* think with the same agent (server.cpp) while calls go on.               *)
(*                                                                         *)
(* A turn is a text that process_message answers, or a greeting: turn t is *)
(* the t-th that was spoken, posted or greeted with.  Each web socket      *)
(* client has one thread, which runs its callbacks one after the other.    *)
(* They, and the calls' callbacks, hold plain pointers: the agent dies with *)
(* the last shared_ptr to it.                                               *)
(***************************************************************************)
EXTENDS Naturals, SequencesExt

CONSTANTS Calls,
          Incoming,  \* the calls that come in
          Handlers,  \* HTTP handler threads that think
          Whisper,   \* the thread of the speech-to-text client
          MaxTurns,  \* bound of the model on the turns
          NoCall

ASSUME ThreadAssumption == Whisper \notin Handlers
ASSUME CallAssumption == NoCall \notin Calls /\ Incoming \subseteq Calls
ASSUME TurnAssumption == MaxTurns \in Nat

Threads == Handlers \cup {Whisper}
Turns == 1..MaxTurns
NoTurn == 0

VARIABLES
  mapped,    \* AgentManager::agents_ holds the agent
  account,   \* the account the calls are made on is there, and holds it
  life,      \* of the agent; see ~Agent below
  call,      \* the Call objects: "none", "up", "over" (it stays), "destroyed"
  started,   \* the calls in the order they were constructed
  speaker,   \* the call whose callback the text-to-speech client holds
  stt, tts,  \* the connections: "new", "open", "closed"
  turns,     \* number of turns so far
  asker,     \* the call each turn belongs to, NoCall if it was posted
  greetings, \* the turns that are greetings
  spoken,    \* external: turns on their way to and from speech-to-text
  pc,        \* where each thread is in process_message
  turn,      \* the turn it answers
  known,     \* the turns whose answers its prompt holds
  history,   \* history_
  metadata,  \* the turn whose response metadata_ is of
  replies,   \* external: answers on their way to and from text-to-speech
  heard,     \* the answers whose audio has been queued, per call
  fault      \* undefined behaviour, of which kind

lifeVars == <<mapped, account, life>>
callVars == <<call, started, speaker>>
netVars == <<stt, tts, spoken, replies>>
turnVars == <<turns, asker, greetings>>
threadVars == <<pc, turn, known>>
agentVars == <<history, metadata>>
vars == <<lifeVars, callVars, netVars, turnVars, threadVars, agentVars, heard, fault>>

Faults == {"none", "race", "agent", "call"}
Running == fault = "none"

Messages == [role : {"user", "assistant"}, turn : Turns]

TypeOK ==
  /\ mapped \in BOOLEAN /\ account \in BOOLEAN
  /\ life \in {"alive", "ttsDying", "sttDying", "freed"}
  /\ call \in [Calls -> {"none", "up", "over", "destroyed"}]
  /\ started \in Seq(Calls)
  /\ speaker \in Calls \cup {NoCall}
  /\ stt \in {"new", "open", "closed"} /\ tts \in {"new", "open", "closed"}
  /\ turns \in 0..MaxTurns
  /\ asker \in [Turns -> Calls \cup {NoCall}]
  /\ greetings \subseteq Turns
  /\ spoken \in Seq(Turns)
  /\ pc \in [Threads -> {"idle", "ask", "wait", "record", "note", "speak"}]
  /\ turn \in [Threads -> Turns \cup {NoTurn}]
  /\ \A w \in Threads : pc[w] = "idle" <=> turn[w] = NoTurn
  /\ known \in [Threads -> SUBSET Turns]
  /\ history \in Seq(Messages)
  /\ metadata \in Turns \cup {NoTurn}
  /\ replies \in Seq(Turns)
  /\ heard \in [Calls -> SUBSET Turns]
  /\ fault \in Faults

Init ==
  /\ mapped = TRUE /\ account = TRUE
  /\ life = "alive"
  /\ call = [c \in Calls |-> "none"]
  /\ started = <<>>
  /\ speaker = NoCall
  /\ stt = "new" /\ tts = "new"
  /\ turns = 0
  /\ asker = [t \in Turns |-> NoCall]
  /\ greetings = {}
  /\ spoken = <<>>
  /\ pc = [w \in Threads |-> "idle"]
  /\ turn = [w \in Threads |-> NoTurn]
  /\ known = [w \in Threads |-> {}]
  /\ history = <<>>
  /\ metadata = NoTurn
  /\ replies = <<>>
  /\ heard = [c \in Calls |-> {}]
  /\ fault = "none"

-----------------------------------------------------------------------------
(* Connections: made once, never made again when they are lost.            *)

\* What a client's thread may still run: once its own class is destroyed, a
\* callback would be a call of a pure virtual function.
WholeStt == life \in {"alive", "ttsDying"}
WholeTts == life = "alive"

Open ==
  /\ Running
  /\ \/ WholeStt /\ stt = "new" /\ stt' = "open" /\ UNCHANGED tts
     \/ WholeTts /\ tts = "new" /\ tts' = "open" /\ UNCHANGED stt
  /\ UNCHANGED <<callVars, spoken, replies, turnVars, threadVars, agentVars, heard, fault, lifeVars>>

\* What was on its way is lost with the connection; the client's thread, which
\* has the close handler to run, is in no callback then.
Close ==
  /\ Running
  /\ \/ WholeStt /\ stt = "open" /\ pc[Whisper] = "idle" /\ stt' = "closed" /\ spoken' = <<>> /\ UNCHANGED <<tts, replies>>
     \/ WholeTts /\ tts = "open" /\ tts' = "closed" /\ replies' = <<>> /\ UNCHANGED <<stt, spoken>>
  /\ UNCHANGED <<callVars, turnVars, threadVars, agentVars, heard, fault, lifeVars>>

-----------------------------------------------------------------------------
(* Calls, made on one account that the agent was given to.                 *)

\* Mutant: a callback that is set already is kept.
StartCallKeepSpeaker(c) ==
  /\ Running
  /\ account
  /\ call[c] = "none"
  /\ call' = [call EXCEPT ![c] = "up"]
  /\ started' = Append(started, c)
  /\ speaker' = IF speaker = NoCall THEN c ELSE speaker
  /\ UNCHANGED <<netVars, turnVars, threadVars, agentVars, heard, fault, lifeVars>>

\* The constructor, which copies the account, takes the agent's only speech
\* callback over.
StartCall(c) ==
  /\ Running
  /\ account
  /\ call[c] = "none"
  /\ call' = [call EXCEPT ![c] = "up"]
  /\ started' = Append(started, c)
  /\ speaker' = c
  /\ UNCHANGED <<netVars, turnVars, threadVars, agentVars, heard, fault, lifeVars>>

\* The other side hangs up, and the object stays; or hangupCall destroys it,
\* which finds outgoing calls only.  The callback is left where it is.
EndCall(c) ==
  /\ Running
  /\ \/ call[c] = "up" /\ call' = [call EXCEPT ![c] = "over"]
     \/ /\ call[c] \in {"up", "over"}
        /\ c \notin Incoming
        /\ call' = [call EXCEPT ![c] = "destroyed"]
  /\ UNCHANGED <<started, speaker, netVars, turnVars, threadVars, agentVars, heard, fault, lifeVars>>

\* A voice segment ends: process_audio sends it if the client is connected.
Speak(c) ==
  /\ Running
  /\ call[c] = "up"
  /\ stt = "open"
  /\ turns < MaxTurns
  /\ turns' = turns + 1
  /\ asker' = [asker EXCEPT ![turns + 1] = c]
  /\ spoken' = Append(spoken, turns + 1)
  /\ UNCHANGED <<callVars, stt, tts, replies, greetings, threadVars, agentVars, heard, fault, lifeVars>>

Synthesize(t) == replies' = IF tts = "open" THEN Append(replies, t) ELSE replies

\* The media of an incoming call become active, once or again.
Greet(c) ==
  /\ Running
  /\ c \in Incoming
  /\ call[c] = "up"
  /\ turns < MaxTurns
  /\ turns' = turns + 1
  /\ asker' = [asker EXCEPT ![turns + 1] = c]
  /\ greetings' = greetings \cup {turns + 1}
  /\ Synthesize(turns + 1)
  /\ UNCHANGED <<callVars, stt, tts, spoken, threadVars, agentVars, heard, fault, lifeVars>>

-----------------------------------------------------------------------------
(* process_message, by the speech-to-text client and by handlers.          *)

Begin(w, t) ==
  /\ pc[w] = "idle"
  /\ pc' = [pc EXCEPT ![w] = "ask"]
  /\ turn' = [turn EXCEPT ![w] = t]
  /\ UNCHANGED known

Finish(w) ==
  /\ pc' = [pc EXCEPT ![w] = "idle"]
  /\ turn' = [turn EXCEPT ![w] = NoTurn]
  /\ known' = [known EXCEPT ![w] = {}]

\* External: the server transcribes in order, or finds no text in a segment.
Transcribe ==
  /\ Running
  /\ WholeStt
  /\ spoken # <<>>
  /\ spoken' = Tail(spoken)
  /\ Begin(Whisper, Head(spoken)) \/ UNCHANGED threadVars
  /\ UNCHANGED <<callVars, stt, tts, replies, turnVars, agentVars, heard, fault, lifeVars>>

\* POST /agents/:id/think; the handler has an owner's pointer until it is done.
Think(w) ==
  /\ Running
  /\ mapped
  /\ turns < MaxTurns
  /\ turns' = turns + 1
  /\ Begin(w, turns + 1)
  /\ UNCHANGED <<callVars, netVars, asker, greetings, agentVars, heard, fault, lifeVars>>

Recorded == {history[i].turn : i \in DOMAIN history}

\* Mutant: the prompt holds the latest exchange only.
ReadLatest(w) ==
  /\ Running
  /\ pc[w] = "ask"
  /\ known' = [known EXCEPT ![w] = IF history = <<>> THEN {} ELSE {Last(history).turn}]
  /\ pc' = [pc EXCEPT ![w] = "wait"]
  /\ UNCHANGED <<callVars, netVars, turnVars, turn, agentVars, heard, fault, lifeVars>>

\* history_ is copied into the prompt without its lock.
ReadHistory(w) ==
  /\ Running
  /\ pc[w] = "ask"
  /\ known' = [known EXCEPT ![w] = Recorded]
  /\ pc' = [pc EXCEPT ![w] = "wait"]
  /\ UNCHANGED <<callVars, netVars, turnVars, turn, agentVars, heard, fault, lifeVars>>

\* External: the provider answers, or fails; both are answers to be recorded.
ProviderAnswers(w) ==
  /\ Running
  /\ pc[w] = "wait"
  /\ pc' = [pc EXCEPT ![w] = "record"]
  /\ UNCHANGED <<callVars, netVars, turnVars, turn, known, agentVars, heard, fault, lifeVars>>

\* An exception leaves process_message and its caller catches it: the agent's
\* configuration is no object, its provider no string, or the answer is such
\* that the conversion throws.  Nothing is recorded, nothing is spoken.
ProviderThrows(w) ==
  /\ Running
  /\ pc[w] = "wait"
  /\ Finish(w)
  /\ UNCHANGED <<callVars, netVars, turnVars, agentVars, heard, fault, lifeVars>>

Message(role, t) == [role |-> role, turn |-> t]

\* Mutant: the lock is not held from the first message to the second.
RecordUnlocked(w) ==
  /\ Running
  /\ pc[w] = "record"
  /\ IF Message("user", turn[w]) \in Range(history)
       THEN /\ history' = Append(history, Message("assistant", turn[w]))
            /\ pc' = [pc EXCEPT ![w] = "note"]
       ELSE /\ history' = Append(history, Message("user", turn[w]))
            /\ UNCHANGED pc
  /\ UNCHANGED <<callVars, netVars, turnVars, turn, known, metadata, heard, fault, lifeVars>>

\* Mutant: an error is spoken and is not recorded.
RecordSuccess(w) ==
  /\ Running
  /\ pc[w] = "record"
  /\ history' \in {history,
                  history \o <<Message("user", turn[w]), Message("assistant", turn[w])>>}
  /\ pc' = [pc EXCEPT ![w] = "note"]
  /\ UNCHANGED <<callVars, netVars, turnVars, turn, known, metadata, heard, fault, lifeVars>>

\* Both messages are added under history_mutex_.
Record(w) ==
  /\ Running
  /\ pc[w] = "record"
  /\ history' = history \o <<Message("user", turn[w]), Message("assistant", turn[w])>>
  /\ pc' = [pc EXCEPT ![w] = "note"]
  /\ UNCHANGED <<callVars, netVars, turnVars, turn, known, metadata, heard, fault, lifeVars>>

\* Mutant: the thread is free for the next turn and keeps this one.
NoteAndStay(w) ==
  /\ Running
  /\ pc[w] = "note"
  /\ metadata' = turn[w]
  /\ IF w = Whisper
       THEN pc' = [pc EXCEPT ![w] = "speak"] /\ UNCHANGED <<turn, known>>
       ELSE pc' = [pc EXCEPT ![w] = "idle"] /\ UNCHANGED <<turn, known>>
  /\ UNCHANGED <<callVars, netVars, turnVars, history, heard, fault, lifeVars>>

\* metadata_ is set without a lock; a handler answers its client.
NoteMetadata(w) ==
  /\ Running
  /\ pc[w] = "note"
  /\ metadata' = turn[w]
  /\ IF w = Whisper
       THEN pc' = [pc EXCEPT ![w] = "speak"] /\ UNCHANGED <<turn, known>>
       ELSE Finish(w)
  /\ UNCHANGED <<callVars, netVars, turnVars, history, heard, fault, lifeVars>>

\* generate_audio sends the answer if the client is connected, or drops it.
\* The client may be half destroyed, or gone.
GenerateAudio ==
  /\ Running
  /\ pc[Whisper] = "speak"
  /\ \/ life \in {"alive", "ttsDying"} /\ Synthesize(turn[Whisper]) /\ Finish(Whisper) /\ UNCHANGED fault
     \/ life # "alive" /\ fault' = "agent" /\ UNCHANGED <<replies, threadVars>>
  /\ UNCHANGED <<callVars, stt, tts, spoken, turnVars, agentVars, heard, lifeVars>>

-----------------------------------------------------------------------------
(* on_message of the text-to-speech client.                                *)

\* External: the server streams an answer in chunks, one answer at a time.
\* Each chunk goes to the callback that is there when it arrives.
PlayChunk ==
  /\ Running
  /\ WholeTts
  /\ replies # <<>>
  /\ replies' \in {replies, Tail(replies)}
  /\ IF speaker = NoCall THEN UNCHANGED <<heard, fault>>
     ELSE IF call[speaker] = "destroyed"
       THEN fault' = "call" /\ UNCHANGED heard
       ELSE /\ heard' = [heard EXCEPT ![speaker] = @ \cup {Head(replies)}]
            /\ UNCHANGED fault
  /\ UNCHANGED <<callVars, stt, tts, spoken, turnVars, threadVars, agentVars, lifeVars>>

-----------------------------------------------------------------------------
(* The agent's owners, and its destructor.                                 *)

conversationVars == <<callVars, netVars, turnVars, threadVars, agentVars, heard>>

\* DELETE takes the agent out of the map (so does a POST of its id).
RemoveAgent ==
  /\ Running
  /\ mapped
  /\ mapped' = FALSE
  /\ UNCHANGED <<conversationVars, account, life, fault>>

RemoveAccount ==
  /\ Running
  /\ account
  /\ account' = FALSE
  /\ UNCHANGED <<conversationVars, mapped, life, fault>>

\* Mutant: a call refers to its account and has no copy of it.
HeldElsewhere == mapped \/ account \/ \E w \in Handlers : pc[w] # "idle"

\* There is a shared_ptr to the agent: in the map, in the account, in the copy
\* of it in every Call, and with a handler that thinks.
Held ==
  \/ mapped
  \/ account
  \/ \E c \in Calls : call[c] \in {"up", "over"}
  \/ \E w \in Handlers : pc[w] # "idle"

\* The last owner runs ~Agent.  The text-to-speech client goes first: its own
\* class, then in the base class its thread ("ttsDying").
Release ==
  /\ Running
  /\ life = "alive"
  /\ ~Held
  /\ life' = "ttsDying"
  /\ UNCHANGED <<conversationVars, mapped, account, fault>>

\* The thread is joined, and the other client's own class goes.
JoinTts ==
  /\ Running
  /\ life = "ttsDying"
  /\ life' = "sttDying"
  /\ tts' = "closed" /\ replies' = <<>>
  /\ UNCHANGED <<callVars, stt, spoken, turnVars, threadVars, agentVars, heard, mapped, account, fault>>

\* Its thread is joined, perhaps in the middle of process_message, before
\* metadata_, history_ and the rest go.
JoinStt ==
  /\ Running
  /\ life = "sttDying"
  /\ pc[Whisper] = "idle"
  /\ life' = "freed"
  /\ stt' = "closed" /\ spoken' = <<>>
  /\ UNCHANGED <<callVars, tts, replies, turnVars, threadVars, agentVars, heard, mapped, account, fault>>

-----------------------------------------------------------------------------
(* Undefined behaviour that ends the process.                              *)

\* The connection opens, is closed or gets a message while the client dies;
\* or a handler thinks with an agent that get_agent did not find.
DeadAgent ==
  /\ Running
  /\ \/ life = "ttsDying" /\ tts # "closed"
     \/ life = "sttDying" /\ stt # "closed" /\ pc[Whisper] = "idle"
     \/ ~mapped /\ turns < MaxTurns
  /\ fault' = "agent"
  /\ UNCHANGED <<conversationVars, lifeVars>>

\* history_ and metadata_ are read while another thread writes them, or config_
\* while a PUT does; a call replaces the speech callback while a chunk is given
\* to it, or while a call that comes in does so too.
Race ==
  /\ Running
  /\ \/ \E w, x \in Threads :
          /\ w # x
          /\ pc[w] \in {"ask", "note"}
          /\ pc[x] = "note" \/ (pc[w] = "ask" /\ pc[x] = "record")
     \/ mapped /\ \E w \in Threads : pc[w] = "ask"
     \/ WholeTts /\ replies # <<>> /\ account /\ \E c \in Calls : call[c] = "none"
     \/ account /\ \E c \in Calls, d \in Incoming : c # d /\ call[c] = "none" /\ call[d] = "none"
  /\ fault' = "race"
  /\ UNCHANGED <<conversationVars, lifeVars>>

-----------------------------------------------------------------------------
Next ==
  \/ RemoveAgent \/ RemoveAccount
  \/ Release \/ JoinTts \/ JoinStt
  \/ DeadAgent \/ Race
  \/ Open \/ Close
  \/ \E c \in Calls : StartCall(c) \/ EndCall(c) \/ Speak(c) \/ Greet(c)
  \/ Transcribe
  \/ \E w \in Handlers : Think(w)
  \/ \E w \in Threads :
       ReadHistory(w) \/ ProviderAnswers(w) \/ ProviderThrows(w) \/ Record(w) \/ NoteMetadata(w)
  \/ GenerateAudio
  \/ PlayChunk

Spec == Init /\ [][Next]_vars

-----------------------------------------------------------------------------
(* The history keeps each turn once, the question followed by its answer:  *)
(* threads that answer at the same time do not mix their messages          *)
(* (process_message adds both under history_mutex_).                       *)
HistoryPaired ==
  LET Pair(i) == <<history[2 * i - 1], history[2 * i]>>
      Pairs == 1..(Len(history) \div 2)
  IN /\ Len(history) % 2 = 0
     /\ \A i \in Pairs :
          \E t \in Turns : Pair(i) = <<Message("user", t), Message("assistant", t)>>
     /\ \A i, j \in Pairs : Pair(i) = Pair(j) => i = j

(* What a caller says is answered in the light of everything said on calls *)
(* before: the prompt holds every spoken turn recorded so far, whatever    *)
(* HTTP clients think meanwhile (process_message runs on the client's one  *)
(* thread, and reads history_ at its start).                               *)
VoiceKnowsEarlier ==
  pc[Whisper] \in {"wait", "record"} =>
    \A t \in Recorded : asker[t] # NoCall => t \in known[Whisper]

(* An answer is remembered before any caller hears it, errors included     *)
(* (process_message returns to the callback that calls generate_audio).    *)
HeardIsRemembered ==
  \A c \in Calls : heard[c] \subseteq Recorded \cup greetings

Position(c) == CHOOSE i \in DOMAIN started : started[i] = c

(* A new call takes the agent's speech callback over for good (the         *)
(* constructor of Call): an answer is heard on the call that asked or on   *)
(* one that started later, never on an older one, and no call but the      *)
(* newest can be called back after it was destroyed.                       *)
NewestCallSpeaks ==
  /\ \A c \in Calls : \A t \in heard[c] :
       asker[t] # NoCall /\ Position(asker[t]) <= Position(c)
  /\ fault = "call" => call[Last(started)] = "destroyed"

(* The agent outlives everyone it was lent to by shared_ptr (the map, the  *)
(* account, the copy of it in each Call, get_agent's callers), its memory  *)
(* outlives the client thread that holds a plain pointer to it (~Agent and *)
(* ~AbstractWebSocketClient), and it is used when it is dead or missing    *)
(* only after it was taken out of the map.                                 *)
AgentOutlivesUsers ==
  /\ life # "alive" =>
       /\ \A c \in Calls : call[c] \in {"none", "destroyed"}
       /\ \A w \in Handlers : pc[w] = "idle"
  /\ life = "freed" => pc[Whisper] = "idle"
  /\ fault = "agent" => ~mapped
=============================================================================
