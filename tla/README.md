# A verification project for sipserver

sipserver registers SIP accounts with PJSIP, makes and answers calls, and
connects every call with an agent: what a caller says is cut out of the audio
by a voice activity detector, transcribed by a speech-to-text server, answered
by an LLM provider and spoken by a text-to-speech server. It is driven by an
HTTP API. This directory models its concurrent core in TLA+, checks it with TLC
on small instances, and proves the most important results with TLAPS for
instances of every size.

    tlc -workers 2 -config MCSipManager.cfg MCSipManager.tla   # a run
    tlapm SipManagerProofs.tla                                 # the proofs

Source locations below are relative to the repository's root (`src/manager.cpp`
is the file `src/src/manager.cpp` of this tree).

## 1. Inventory

| Component | State | Operations | Threads that run them |
|---|---|---|---|
| Task queue of Manager (`manager.h:46-73`, `manager.cpp:184-239`) | `tasks`, `stopped`, mutex and condition, `m_running` | `enqueueTask`, `enqueue`, `dequeue`, `stop`, `workerThreadMain`, `shutdown` | HTTP handlers, the worker, the thread that shuts down |
| Accounts and calls of Manager (`manager.cpp:40-172, 241-266`) | `m_accounts`, `m_activeCalls` | `addAccount`, `removeAccount`, `makeCall`, `hangupCall`, `shutdownPjsip` | handlers submit, the worker runs |
| Account, Call (`account.cpp`, `call.cpp`) | agent, registration callback, the copied account, the media port | `onRegState`, `onIncomingCall`, `onCallMediaState`, the constructor | PJSIP's threads, the worker |
| AgentManager (`agent.h:60-151`) | `agents_`, `config_` of each agent | `add_agent`, `update_agent_config`, `remove_agent`, load at start | handlers |
| Database (`GlobalDatabase.h`, `InMemoryDatabase.h`) | documents in memory, `db_backup.bson` | `execute`, `insertDocument`, `deleteDocuments`, `saveToFile`, `loadFromFile`, `initialize`, `shutdown` | handlers, the exiting thread |
| VAD (`vad.cpp`) | ring of frames, voice buffer, `triggered` | `processFrame` | PJSIP's media thread |
| MediaPort (`media_port.cpp`) | `audioQueue`, `pcmBuffer` and its index | `addToQueue`, `onFrameRequested`, `onFrameReceived`, `clearQueue` | the speech client's thread and the media thread, no lock |
| Agent (`agent.cpp`) | `history_`, `metadata_`, two web socket clients, one speech callback; shared by AgentManager, the accounts, the calls and whoever thinks with it | `process_message`, `process_audio`, `generate_audio`, `set_speech_callback`, `~Agent` | the transcription client's thread, handlers, media thread; the destructor in whichever thread drops the last pointer |
| Web socket clients (`include/stream`) | `connected`, a callback, a thread | `connect`, send, `on_message`, a destructor that joins the thread | a thread each |
| HTTP server (`server.cpp`) | connections that wait, threads that are taken, `event_id` | the routes, `/events` | httplib's pool, of a fixed size |
| ProviderManager (`provider_manager.h`) and `lua/` | one Lua state, provider table, each provider's configuration and metadata | `load_provider`, `process_request`, `provider.request` | whoever calls `process_message` |
| Configuration (`configuration.h`) | `values_` of the command line, `variables_` of the settings file | `parse`, `load`, `initialize`, `get` | the main thread, before all others |
| Process (`main.cpp`) | how far it is | start, test mode, server, `my_terminate`, `signal_handler`, exit | the main thread, and whichever thread a signal interrupts |
| Logger, vendored libraries | none that anything depends on | - | - |

How they interact:

- A handler calls Manager, which puts a closure into the queue; `addAccount`
  waits up to 20 s for a promise that the worker (on an error) or PJSIP
  (`onRegState`) sets, everything else is answered at once. The worker runs the
  closures one by one and calls PJSIP, which calls back on threads of its own.
- A Call copies its Account and takes over its agent's only speech callback.
  Its media port feeds the detector and plays what the agent speaks; the
  detector's callbacks send segments to the agent and clear the queue.
- The transcription thread runs the whole of `process_message`, an HTTP round
  trip included, and then hands the answer to the speech client, whose thread
  queues the audio in the call's media port.
- AgentManager changes its map under one lock and the database under another;
  each `execute` rewrites the whole file.
- A route runs on a thread of httplib's pool, which it keeps until it returns:
  `addAccount` for up to 20 s, `think` for as long as the provider takes,
  `/events` until its client is gone.
- `main` reads the configuration, opens the database, and then runs one request
  (`--test`) or the server; however the process ends, the destructor of the
  database saves it once more, unless the process is killed.

What makes this hard: the queue's lost-wakeup and shutdown protocol; promises
set by two parties and abandoned by a third; library callbacks between any two
steps of a task; object lifetimes that delete PJSIP's accounts; two critical
sections per agent request; a file that is truncated before it is written; an
unlocked audio queue; a history that several threads extend; an agent that is
destroyed while threads of its own still run; configurations
merged from three sources across two languages; a start that can fail at any
point and still ends in a save. `PROJECT.json`
lists each of them as a hazard, with its line and the properties about it.

## 2. Modules

| Module | Models | Composed with |
|---|---|---|
| `FifoExecutor` | abstract: tasks run one at a time in FIFO order, at most one more starts after closing begins, none after it ended | implemented by `TaskQueue`, used by `SipManager` |
| `TaskQueue` | the queue and its threads, lock by lock | refines `FifoExecutor` |
| `HttpServer` | connections, the pool's threads, `/events`, handlers that submit tasks | extends `TaskQueue` |
| `SipManager` | HTTP handlers of `/accounts` and `/calls`, Manager's tasks, Account, Call, PJSIP | INSTANCE of `FifoExecutor` |
| `AgentDocs` | abstract: what the database promises about stored agents | implemented by `AgentStore` |
| `AgentStore` | handlers of `/agents`, AgentManager, the database, its file, crash and restart | refines `AgentDocs` |
| `Vad` | the detector | used by `MediaPort` |
| `MediaPort` | a call's audio in both directions | extends `Vad` |
| `Conversation` | one agent from its creation to its destructor, its owners, its calls, its two connections and HTTP clients | - |
| `Provider` | one LLM provider: registration, the conversions between JSON and Lua, the merge of configurations, requests and their metadata | - |
| `Configuration` | the command line's parser, the settings file's parser, the lookup in both | extended by `Process` |
| `Process` | a process from `main` to its end, and the next one on the same file: configuration, database, test mode, server, signals, aborts, kills | extends `Configuration` |
| `HttpServerProofs`, `SipManagerProofs`, `AgentStoreProofs`, `VadProofs`, `MediaPortProofs`, `ConversationProofs`, `ProviderProofs`, `ProcessProofs` | theorems about the module each is named for | `HttpServerProofs` has those about `TaskQueue` too, which `HttpServer` extends; `MediaPortProofs` extends `VadProofs` |
| `MC...` | symmetry sets and the inputs of the runs | - |

`map` in `PROJECT.json` gives the lines of every definition. Definitions called
*mutant* in a module's comments are plausible bugs: each property of a passing
run comes with one that makes TLC report it violated. They are no part of `Next`.

**TaskQueue.** A task stands for the handler thread that submits it; `pc` is
where that thread is in `enqueueTask` and `enqueue`, `wpc` where the worker is
in `workerThreadMain` and `dequeue`, `spc` where the stopping thread is in
`shutdown`. The wait on the condition variable is taken apart: the test of the
predicate under the lock, the atomic release-and-block, the wake-up (notified
or spurious), the new attempt on the lock. `notify_one` and `notify_all` are
steps of their own, after the unlock, as in the code.

**HttpServer.** A task of `TaskQueue` is here the client whose request submits
it, and its handler takes `TaskQueue`'s steps only while its connection is in
`active`; the worker and the stopping thread need no thread of the pool. `jobs`
are the accepted connections no thread has taken. A client of `/events` keeps
its thread, because the content provider always returns true, and leaves only
by hanging up; it may connect again.

**SipManager.** An account object is named by the request that creates it, a
call by the request that dials it. `pc`, `op`, `answer` are a handler's place
in its route; `step` and `dialing` are the worker's place inside a task, cut
where a PJSIP thread can see the difference: after `create()`, after
`setAgent`, after the insertion, after `makeCall`. `promise` is the
registration promise, `armed` the registration callback (`onRegState` moves it
out before it calls it), `bound` whether an account has its agent, `through`
the account a Call copied. `slot` is the id PJSIP gave to an account object, and
`Destroy` is what its destructor, or that of a copy, does to PJSIP: it deletes
the account that has the id, which may be another object's by then. `TrackCall`
replaces the object an old call left under the id of the new one, and its
destructor hangs up the new call. Every library call in `PjErrors` may throw;
every `catch` in the code is a disjunct, and `CallbackThrows` is the error of a
callback, which nothing catches. `fault` is what ended the process: a null agent
followed in Call's constructor, a promise set twice, or such an error. The two mutexes
`m_accountsMutex` and `m_callsMutex` are only ever taken by the worker, so they
are not modelled.

**AgentStore.** An Agent object is named by the POST that creates it or, after
a restart, by its id. A handler is cut at its two critical sections (the map,
then `execute`), at the save inside `execute`, and between the truncation and
the write of the file. A PUT that reaches `insertDocument` throws, because
`persist_agent` never updates; `remove_agent` deletes the documents of the
whole table: both are the code's behaviour. `Unsaveable` are the configurations
`to_bson` refuses: the save fails and is logged, and the handler succeeds.

**Vad.** `processVAD` is split by its outcomes: `Listen`, `StartSpeech`, `GoOn`,
`EndSpeech`. Frame 0 stands for the empty frames the ring starts with. The
share is taken of what the ring holds, in percent, as the code does: after a
change of state the ring is empty and one frame decides. `processFrame` is one
step, since one thread runs it.

**MediaPort.** Samples are numbered as they are queued. `onFrameRequested` is
one action per turn of its loop. `addToQueue` is two steps, and `Race` is the
data race: `pop` or `clearQueue` while `emplace` is under way breaks the queue
(`corrupt`), after which nothing is modelled; properties hold up to there.

**Conversation.** A turn is a text that is answered, or a greeting. A thread in
`process_message` reads the history, waits for the provider, records both
messages under the lock, stores the metadata and, on the transcription thread,
sends the answer to be spoken; or it leaves by an exception with nothing recorded
(`ProviderThrows`), which the client's thread and the route catch. `speaker` is the call whose `this` the speech
callback holds. Connections open at any time and are never made again. `Held`
says who owns the agent: AgentManager's map (`mapped`), the account, calls that
stand, HTTP clients that think. `RemoveAgent` and `RemoveAccount` drop the first
two at any step; when nobody is left, `Release` begins `~Agent`, which takes the
text-to-speech client apart (`JoinTts`) before the transcription client
(`JoinStt`), member by member in the reverse order of `agent.h`, and each
client's own class before `AbstractWebSocketClient` joins the thread. `fault` is
what the program cannot survive: `"race"` (two threads at `history_`,
`metadata_`, `config_` or the speech callback, one of which writes, without the
lock; two constructors of calls count, and a PUT of the agent),
`"agent"` (a dead or null agent, or a dead client, is used), `"call"` (the
callback of a destroyed call). Nothing is modelled after a fault; the properties
hold up to it, and `AgentOutlivesUsers` says when `"agent"` cannot come.

**Provider.** A Lua table is a function from all keys to values, `Nil` where it
has no entry, which is how Lua reads it; an object is one from all names.
`Level[n]` has the values with at most `n` levels of arrays, objects or tables
in their parts, and those of `Level[Depth]` are the values there are: JSON that
a parser has accepted and tables a script has built are finite. `json_to_lua`,
`lua_to_json` and `deep_merge` (`force`, as `MergeForce`; `MergeKeep`, which does
not recurse) are recursive functions over them. An assignment of nil leaves no
entry, so a null in a list leaves a hole; a table with a border above 0 becomes
an array (`Size` is a border, as `#` in Lua), any other an object. A request is
converted (`params`), and the defaults, the file's `parameters` and the agent's
options are merged (`config`); it ends in an error when one of them is no table
(`SourceInvalid`), is refused without an API key, and is answered by the
handler, which is external: an error, or metadata. `kept` is the script's
`provider.metadata`, which keeps the first value of a key; `shared` the
manager's copy, which takes the last; `metadata` what the agent stores, null
after every failure. `AnswerLost` is the answer whose content is no string: the
script has kept its metadata when the conversion throws (the build is a debug
build, `CMakeLists.txt:10`, in which sol checks conversions).
`SettingsHavePriority` is about every path, inner tables included: an inner
value is taken over by a later source's value at the path, or by a later value
that is no table on the way to it, and by nothing else.

**Configuration.** An argument is a record: what its dashes make of it (`form`),
the option it names and the value it carries. One step is one turn of the loop
of `parse`, with the index as the code moves it: by one, or by two where the
next argument is taken as the value; every `throw` is a disjunct of
`RefuseArgument`, `RequiredMissing` or `RefuseLine`. The file is a sequence of
lines, of which the first one of a key counts (`emplace`), whatever its case.
`Lookup` is `get`: a declared option first, with its default, then the file.

**Process.** `phase` is where `main` is. `Process` adds the database as `main`
sees it: a file that is absent, torn or whole, `initialize("")`, and the save in
the destructor; a handler's change and its save are one step here, which
`AgentStore` takes apart. A save of a document in `Unsaveable` fails and is only
logged, so that the database is ahead of the file. `Signal` is `signal_handler`
wherever `main` is; a server that gets one is `"exiting"`, its handlers at work
until the last save is done,
`HandleAbort` the way of an exception that `main` does not catch, `Kill` the end
without destructors. Processes follow one another on the same file.

## 3. What is external, and what is assumed of it

- PJSUA2: the destructor of `pj::Account` deletes the PJSIP account, that of
  `pj::Call` hangs up; a hangup goes to whatever call has the id; ids are reused
  when a call is over; callbacks of one account come one after the other;
  registrars and callees may never answer. Ids of accounts are reused too, and
  the destructor of an Account deletes the account that has its id; an error in
  a destructor is swallowed. One media thread asks for and delivers the frames
  of a port.
- The speech servers answer in order on a connection, or not at all; what was
  on its way is lost with the connection.
- The provider answers with a text or an error, or throws.
- The tables that the providers pass as defaults hold no tables (`groq.lua:16`,
  `ollama.lua:16`; `DefaultsAssumption`): `deep_merge` stores a table of its
  source in its target, and would merge the next source into the default. The
  metadata in an answer are a record of decoded JSON: no holes, no tables that are
  list and record at once (`AnswerAssumption`). A file's `metadata` are an object
  or null (`FileAssumption`): on anything else `update` throws at every answer.
- The file system: a process that dies between truncation and write leaves a
  file that cannot be read; what a finished `saveToFile` wrote is there later
  (no loss of power) and can be loaded: it can be opened, and `from_bson` takes
  what `to_bson` made.
- httplib is vendored, and its loop of `accept` and its pool (`ThreadPool`,
  `PoolSize` being `CPPHTTPLIB_THREAD_POOL_COUNT`) are modelled from its header;
  that its queue has no limit is its default, and the system accepts connections.

## 4. Runs

Passing runs:

| Run | Question | Bounds and why they are enough |
|---|---|---|
| `http_server` | Is a wake-up lost, does a rejected task run, do `shutdown` and submissions return, is the queue a FIFO executor, is every connection answered? | 2 handlers and 2 clients of `/events` on 2 threads: the clients can hold the whole pool, one handler waits behind it, one task is queued behind another or races the stop. No bound on wake-ups, spurious ones included, nor on how often clients come back. Deadlock is checked: the only final states are those where everybody has returned. |
| `sip_manager` | Are accounts orphaned, doubled, left without their agent, promises set twice? Does every handler answer, a shutdown release? | 2 requests of any kind on one id: two are what it takes to collide on it; 2 account ids of PJSIP. All library errors that are caught, callbacks at any step. No symmetry, which would be unsound for the liveness properties. |
| `sip_manager_calls` | Are outgoing calls tracked, is shutdown final? | 4 requests, so that a call's id is reused after post, make, make, and an account is deleted and posted again under its calls, with the same id of PJSIP's or the other. Callbacks may throw. |
| `agent_store` | Is the file the database, is `AgentDocs` implemented, does what was created stay, is every difference between memory and database somebody's 400, does every handler answer? | 2 requests on 2 agents with 3 configurations, one unsaveable: two are what it takes to collide on an agent, or to delete one beside another; crashes anywhere, any number of restarts. |
| `vad` | Are segments runs of frames with their lead-in? | a ring of 7 with the code's ratio (so that 6 of 7 decide, and 1 of 1), a buffer of 9 so that it fills up, every sequence of 24 frames: two full segments. |
| `media_port` | Is audio lost, torn, replayed after an interruption? | frames of 3 samples, chunks of 0, 2 and 4 (shorter, longer, not dividing), 6 samples, 4 frames heard with a ring of 2. |
| `conversation` | Do histories mix, does the conversation miss its own turns, where are answers heard, does the agent outlive its users? | an outgoing and an incoming call, an HTTP client, 3 turns: one being answered, one being spoken, one that waits. The agent and the account are removed at any step. |
| `provider` | Which setting wins, do metadata survive the way out of Lua and back? | defaults, a file and an agent's options that each lack the setting or have a scalar, a null, a list (empty, of two, with a null in it) or a table: every pair of shapes that `deep_merge` and the conversions distinguish. Values are nested three deep (`Depth`), a list in an inner table at most; 4 names and 2 integer keys, so that an item can be missing before another. Also an option or a parameter that is no table. |
| `process` | Are the settings what was given, does the server listen only when told to, does a start keep what is stored, does it end? | up to 3 arguments: an option, its value, and one more that overrides it; `main` declares only `test`, two further sets of options exercise options with a value, a required one and one that names the file; five states of the file: absent, unreadable, and three contents with doubled keys, comments, both cases and a port that is no number. Two documents, one of which cannot be saved. Any number of processes. |

Violation runs, each one property that the repository states and the code does
not keep:

| Run | Shows |
|---|---|
| `call_without_agent` | A call from an account without agent ends the process (`call.cpp:52`); the test suite makes such a call and expects 202. |
| `delete_one_agent` | "Delete agent" deletes every agent's document (`agent.h:86`): the others are gone after a restart. |
| `update_refused` | "Update agent config" is always answered 400 (`agent.h:147`), after the agent in memory was changed. |

Deadlock is left unchecked (`CHECK_DEADLOCK FALSE`) in `vad` and
`conversation`: frames stop at the bound, a conversation ends.

Fairness. `HttpServer` and `TaskQueue`: every thread that can take a step takes
one, those of the pool included, and locks are granted fairly; `std::mutex` does
not promise that much, but a thread waits for it a bounded number of times here.
Nobody has to connect, and clients of `/events` never have to hang up:
`CallersAreAnswered` has in its premise that they leave a thread time and
again. `SipManager`: the worker and the handlers
are scheduled, `wait_for` runs out, a shutdown that began goes on; nothing is
assumed of clients, PJSIP or registrars. `AgentStore`: handlers are scheduled
and an exit that began ends; no fairness for crashes or restarts. `MediaPort`:
PJSIP's clock asks for frames and a callback ends; audio and callers may stop.
`Process`: the main thread runs; the request of test mode may hang, and nobody
has to start, signal or kill a process.
`Vad`, `Conversation` and `Provider` have safety properties only.

## 5. Proofs

Each module of proofs leaves the size of the instance open: `HttpServerProofs`
any number of submitting threads, any clients and any size of the pool; `SipManagerProofs` any requests, ids, inputs and library calls that
throw; `AgentStoreProofs` any requests, agents and configurations, refused ones
included; `VadProofs` and `MediaPortProofs` any ring, ratio, buffer, length of a
frame and lengths of chunks; `ConversationProofs` any calls, HTTP clients and
number of turns; `ProviderProofs` any keys, contents and depth of nesting, any
defaults, files, options and answers; `ProcessProofs` any options, command lines and files. The
constants are assumed to be well formed inputs and null values that are no
members of the sets they are null for; `Configuration` also assumes of the
options what `main` declares (`main.cpp:72`): a long name, a default, and no
name twice.

`HttpServerProofs`, on the queue. `IInv` adds to the properties who holds the mutex where
(`MutexInv`), that both flags are written by the stopping thread alone
(`FlagInv`), and that between the test and the sleep the predicate stays false
(`BlockInv`): without it, NoLostWakeup is not inductive, since the worker could
fall asleep on a predicate that had become true. Theorems: `TypeCorrect`,
`WakeupsAreNotLost`, `RejectedNeverRun`, and `Implements`, the refinement of
`FifoExecutor` (its safety part; fairness stays with TLC). They are theorems
about `Spec` of `TaskQueue`, and use nothing that `HttpServer` adds.

`HttpServerProofs`, on the server. `ServerIsQueue`: whatever the pool does, the server behaves
as `Spec` of `TaskQueue`, so that the theorems about the queue hold of it
(`ServerKeepsQueue`).
`ServerTypeCorrect` needs `JobsInv`, that a connection is accepted once and not
again after its answer: without it a connection that has been taken, or
answered, could still wait.

`SipManagerProofs`. `IInv` adds: what a handler may submit (`HandlerInv`,
`TaskInv`); that addAccount's task of a request is queued at most once and its
object does not exist before it runs (`FreshInv`), which makes "set twice" and
"created twice" impossible; where the worker's `step` can be (`StepInv`); that
map entries are real objects under their own ids, and that there is none for the
account being added (`AccountInv`); that the callback is armed only while the
promise is unset (`PromiseInv`); that no object has an agent its request did not
name (`AgentInv`); call and release counterparts (`DialInv`, `ReleaseInv`). One
lemma per conjunct says that every step keeps it. Theorems: `TypeCorrect`,
`AccountsAreNeverOrphaned`, `AccountsAreNeverDoubled` (two accounts of one id:
one would be neither in the map nor under way), `PromiseIsSetOnce`,
`CallsMeetTheirAgent`, `DialledCallsAreTracked`, `ShutdownIsFinal`.
`ExecutorIsRespected` closes the gap between the two modules: action by action,
the service does to its queue and worker only what `FifoExecutor` allows, and
`Implements` says that the real queue does no more than that.

`AgentStoreProofs`. `IInv` adds: who is under way in which state of the process
(`ProcessInv`), what a handler knows at each of its steps (`HandlerInv`), that
objects in memory were made for their id (`ObjectInv`), that the file is the
database unless a save has thrown or is under way (`FileInv`), and what the
handler that saves has changed so far (`SaveInv`). `DivergenceIsTold` is not
inductive as it stands: when a handler stores a document, it has to be the one
that is in memory. `WriterInv` says so: without a document of an agent, whoever
is about to store one has the last word in memory, or somebody else was answered
400 or is under way. Theorems: `TypeCorrect`, `FileHoldsDatabase`,
`DivergenceAlwaysTold`; `DocsImplemented`, the refinement of `AgentDocs`, one
case per action; `CreatedAlwaysSurvives`, an implication between two temporal
formulas: `SafeInv` follows a document from its 201 to the file and into the
next process, and is inductive only as long as no file was torn.

`VadProofs`. `RingInv` gives every place of the ring the number of its frame:
the last `Len(ring)` ones received, or the empty frames of the start. `VoiceInv`
does the same for the segment being spoken, `AfterInv` says that what waits came
after the last segment, `LeadInv` that the ring has lost a frame since then only
for want of room: without it `NothingMissed` is not inductive, because a segment
is made of what the ring kept. Theorems: `SegmentsAlwaysRuns`, `NothingIsMissed`,
`LeadInAlwaysKept` (an action property).

`MediaPortProofs`. Samples are numbered as they are queued, so that a chunk is a
run of numbers. `QueueInv` says that there are marks, one more than chunks, such
that chunk `k` goes from mark `k-1` to mark `k`: each begins where the one before
it ends. `FrameInv` places the frame being filled and the chunk being played
before the first mark. Theorems: `NothingIsLost`, `NoGapsEver`,
`CallerAlwaysSilences`, and `DetectorImplemented`: a port behaves as `Vad` says
on its detector, so that the theorems of `VadProofs` hold of every call.
`NothingLost` flattens the queue with a recursive function (`FlattenSeq`).
Induction over a sequence is stated by the library with an operator for its
parameter, which the provers cannot instantiate; `Smallest` takes its place: a
nonempty set of naturals has a least member (from `WellFoundedInduction`), so a
claim that fails at some length fails at a smallest one (`FlattenMarked`).

`ConversationProofs`. `IInv` is types, `LifeInv`, `MemoryInv`, `HistoryInv` and
`OrderInv`. `LifeInv` says
that an agent whose destructor has begun has no owner left and never gets one
again: with it `AgentOutlivesUsers` is inductive. `MemoryInv` relates a turn to
its messages in the history: that the transcription thread, which answers one
turn after the other, has recorded all it answered before (`TurnInv`), and that
an answer on its way to be spoken has been recorded (`AnswerInv`).
`HistoryInv` adds that a turn has one place, in the history, with one thread, or
once among what was said (`PlaceInv`): else two threads could record the same
turn. `OrderInv` adds that calls are constructed once each, the newest being the
callback's (`StartedInv`), and that an answer on its way has somebody who asked
(`AskerInv`). Theorems:
`TypeCorrect`, `AgentOutlivesItsUsers`, `VoiceKnowsWhatWasSaid`,
`WhatIsHeardIsRemembered`, `HistoryIsPaired`, `NewestCallAlwaysSpeaks`.

`ProviderProofs`. Its invariant is short: the configuration is the merge of what
the last request was given (`ConfigIsMerged`), the agent's metadata are the
conversion of what was answered (`MetadataIsAnswer`), so that both properties
come down to what the recursive functions compute, for values of any shape.
Three arguments carry that. First, such a function has the values its definition
says: TLA+ has it chosen among the functions that satisfy the equation, so one has
to be shown to exist. It is built level by level, since what it is at a value
depends on values of the level below only (`ToLuaAgrees`, `ToJsonAgrees`,
`MergeAgrees`; `JsonToLuaIs`, `LuaToJsonIs`, `ForceIs`). `LevelInduction` and
`BelowInduction` do without an operator for their parameter: they say of a set of
levels that it has them all, by `UpTo`, a least number that is not in it. Second,
`MergeAlongPath` walks down a path in both tables and in their merge: as long as
both have tables the merge has the merge of those; from where one of them has
none it has what the second has, if that is something, and what the first has
otherwise. Third, `RoundTrip`: a record has no border but 0 and a list of `n`
items none but `n` (`SizeOfRecord`, `SizeOfList`), so that each becomes an object
or an array with the same entries and becomes the same table again. Theorems:
`TypeCorrect`, `SettingsAlwaysHavePriority`, `MetadataAlwaysReturn`.

`ProcessProofs`. `OptionInv` is about the arguments before the index: every known
option mentioned there has a last mention, and what is stored is its value.
`LineInv` is its mirror image for the first setting of a key in the file. Both
name the position of a witness, so that one step of the loop extends them
without an induction over positions. `PhaseInv` says that each parser has come to
its end before what follows it, `DataInv` that an open database has the agents of
the file unless one of its documents cannot be saved, `ListenInv` that a server that listens still has what made it listen.
Theorems: `TypeCorrect`, `SettingsAlwaysAsGiven`, `ListensOnlyAsTold`,
`StartsKeepData` (an action property), and `GetAlwaysFindsWhatIsSaid`, which no run
states: a lookup finds the last word of the command line, or the first of the
file, and nothing that was not said.

Only model-checked: liveness and the fairness part of the refinements, which are
out of the prover's reach (`NobodyIsStuck`, `CallersAreAnswered`,
`ImplementsExecutor` as to fairness, `EveryWaitEnds`, `HandlersAnswer`,
`AudioIsPlayed`, `StartEnds`). Every invariant and action property of a passing
run is proved.

## 6. Behaviour a reader should know, without a run of its own

The models take these steps, as the code does; no line of the repository
promises otherwise clearly enough to state a property.

- A call that comes in after `create()` and before `setAgent`
  (`manager.cpp:91-94`) meets a null agent.
- Two PUTs of an account can interleave as remove, remove, add, add: the second
  add fails and its PUT is answered 200. A PUT that lacks a field is answered
  500 when the account has been removed already (`server.cpp:88-94`).
- Calls that came in are in no map; `/calls/hangup` says "Call terminated" and
  does nothing about them.
- The Account that a Call copies deletes the PJSIP account when the Call is
  destroyed: `m_accounts` goes on holding an account that is not registered. After
  a DELETE and a POST, the end of an old call can so unregister the new account,
  if PJSIP gave it the old one's id.
- A call that gets the id of one the other side ended is hung up at once, by the
  destructor of the old Call that it replaces in `m_activeCalls`
  (`manager.cpp:146`). Its client was told 202; its entry stays, and a hangup of
  it throws and is ignored until the id is used again.
- A `pj::Error` out of a callback (`account.cpp:28, 42, 47`, `call.cpp:81`) is
  caught by nobody and ends the process.
- A refused POST has already replaced the agent in memory (`agent.h:72`); a
  DELETE between the two halves of a POST leaves a document that the next
  restart turns into an agent (`agent.h:81`).
- One document `to_bson` refuses keeps everything after it off the disk: POSTs
  are answered 201 and are gone with the process.
- A file that is torn by a crash loses every agent. A file that is there and
  cannot be loaded is taken for none: the database starts with the default
  schema, and the last save, if not an earlier one, overwrites what was there
  (`GlobalDatabase.h:77-100`).
- After a signal the handlers go on while the static objects are destroyed
  (`main.cpp:37`); what they do after the last save is not modelled.
- After a change of state the detector's ring is empty, so that one unvoiced
  frame ends speech and one voiced frame starts it.
- Answers are heard by the agent's newest call, not by the one that asked; the
  callback of a destroyed newest call dangles. A connection that is lost is not
  made again.
- Enough clients of `/events` hold every thread of the pool, and no request is
  served until one of them is gone (`server.cpp:293`).
- `think` of an agent that is not there, or has been deleted, dereferences null
  (`server.cpp:212`).
- `~Agent` destroys the text-to-speech client before the transcription thread
  is joined, so that an answer on its way is sent to a dead client; each
  client's own class is gone before `AbstractWebSocketClient` joins its thread,
  so that a message that comes in then meets a pure virtual `on_message`.
- A DELETE that drops the agent's last pointer joins those threads under
  `agents_mutex_` (`agent.h:81`), and with them waits for an answer of the
  provider: no other agent can be looked up meanwhile.
- `history_`, `metadata_` and the speech callback are read without the lock that
  guards their writers, or written without one (`agent.cpp:39`, `agent.cpp:64`).
- `std::exit` in the signal handler does not destroy `main`'s Server: Manager's
  `shutdown` is reached only when `listen` fails or `run` throws.
- A declared option hides the setting of its name in the file even when it is
  not given, since its default counts as a value (`configuration.h:206`).
- A first start that fails after the database was opened still writes a file,
  with the default schema.
- Lists are merged by position: the options' list of one element over the
  file's list of two gives a list of two (`provider.lua:38`).
- `provider.metadata` keeps the first value of every key (`provider.lua:129`,
  "Update metadata if provided"), and it, not the agent's metadata, is what a
  handler is given (`provider.lua:109`).

## 7. Not modelled

- The HTTP round trips of the Lua handlers and their request bodies; scripts
  that fail to load; that threads share one Lua state without a lock (undefined
  behaviour inside a library: `Provider` takes one request at a time).
- The logger, the read-only routes, the number of an event (`event_id` is only
  printed), the help text, and the vendored libraries but for httplib's pool.
- Connections that are kept alive: httplib serves up to 100 requests on one
  (`CPPHTTPLIB_KEEPALIVE_MAX_COUNT`), whose thread waits for the next one up to
  5 s (`httplib.h:3324`). In `HttpServer` a connection ends with its answer.
- The speech callback that a Call leaves behind when its constructor throws at
  `createPort` (`call.cpp:81`).
- Table's `try*` functions, transactions and callbacks, the queries, the
  directory functions, `loadConfiguration` (`initialize` is only called with an
  empty path) and `clear_agents`: nothing in the program calls them.
- A signal that comes while the interrupted thread holds the database's lock, or
  while the destructors run: the exit then waits for itself. That `config_` is
  written without a lock is a race in `Conversation`; `AgentStore` writes it at
  once.

## 8. Plan

Done: the queue, its refinement and the HTTP server in front of it; the account
and call service; the agents and their file with the refinement; the detector;
the audio port; the conversation with the agent's whole life; the provider's
merge and conversions; configuration and process. Proved: every safety property
of the runs, and the safety part of every refinement.

Next, in this order:

1. `SipManager` composed with `Conversation`: one account with several calls,
   so that the Account copy's lifetime is followed into the agent's.
2. `Provider`: several providers that share a script environment and are
   registered again; requests of several agents.
3. Table's transactions, if the program comes to use them.
